---------------------------- MODULE Spec2Model ----------------------------
(***************************************************************************)
(* Model of the Micron Sonar decoding and time-series code:                *)
(*   MicronSonar      (schema: field groups, label_list, data_lookup)       *)
(*   MicronEnsemble   (decode of one csv row into a data array)             *)
(*   MicronTimeSeries (ensemble_list buffer, DataFrame, labels, crop)       *)
(*                                                                         *)
(* Numbers.  The program computes with floats; the model computes with     *)
(* exact integers by giving every cell a fixed denominator:                *)
(*   angles (left_lim, right_lim, steps, bearing, bearing_bias,            *)
(*           bearing_ref_world, incidence_angle): 1/160 degree, so that    *)
(*           the multiplier 360/6400 = 9/160 is the integer 9;             *)
(*   range_scale: 1/10 m;  ad_low, ad_span, bins, max_intensity: 1/255 dB; *)
(*   bin_size, peak_start, peak_end, peak_width: 1/100000 m (rounded down).*)
(* A float product r*(360/6400) equals an integer number of degrees        *)
(* exactly when r*9/160 is one, so comparisons of bearings with whole      *)
(* degrees agree between the floats and the model.                         *)
(***************************************************************************)
EXTENDS Integers, Sequences, FiniteSets, TLC

(***************************************************************************)
(* np.nan.  A cell holds a number or NaN; NaN is the one value outside the *)
(* range of every number of the model.  Comparisons with NaN are false     *)
(* (Ge, Le, Lt below); as a stored cell value it equals only itself.       *)
(***************************************************************************)
NaN == -2000000000

(* Python's None as the value of an optional number (sonar_depth,          *)
(* sonar_altitude): the one value that is neither a number nor NaN.        *)
None == -2000000001

(* unit conversion multipliers, as numerator / denominator                 *)
grad_to_deg_num == 9
grad_to_deg_den == 160
dm_to_m_num == 1
dm_to_m_den == 10
bin_to_db_num == 80
bin_to_db_den == 255

(* one degree in the unit of the angle cells                               *)
Deg(d) == d * grad_to_deg_den

(***************************************************************************)
(* MicronSonar.__init__: the schema the time series uses.                  *)
(***************************************************************************)
header_vars ==
    << "line_header", "date_time", "node", "status", "hdctrl",
       "range_scale", "gain", "slope", "ad_low", "ad_span",
       "left_lim", "right_lim", "steps", "bearing", "dbytes" >>

derived_vars ==
    << "year", "month", "day", "sonar_depth", "sonar_altitude",
       "bearing_bias", "bearing_ref_world", "incidence_angle", "bin_size",
       "max_intensity", "max_intensity_bin", "max_intensity_norm",
       "peak_start_bin", "peak_start", "peak_end_bin", "peak_end",
       "peak_width_bin", "peak_width", "vertical_range" >>

ice_vars ==
    << "class_ice_category", "class_ice_presence", "class_ice_percent",
       "class_ice_thickness", "class_ice_slope", "class_ice_roughness",
       "label_ice_category", "label_ice_presence", "label_ice_percent",
       "label_ice_thickness", "label_ice_slope", "label_ice_roughness",
       "label_saltwater_flag" >>

header_len == Len(header_vars)
derived_len == Len(derived_vars)
ice_len == Len(ice_vars)
intensity_len == 500

BinVars_same(n) == [i \in 1..n |-> "bin_0"]

(* "bin_%s" % i for i in range(n)                                          *)
BinVars(n) == [i \in 1..n |-> "bin_" \o ToString(i - 1)]

intensity_vars == BinVars(intensity_len)

label_list == header_vars \o derived_vars \o ice_vars \o intensity_vars

intensity_index == header_len + derived_len + ice_len

SeqSet(s) == {s[i] : i \in 1..Len(s)}

label_set == SeqSet(label_list)

ensemble_size == Len(label_list)

(* {label_list[i]: i}: the 0-based offset of a name (of its last           *)
(* occurrence, as in a dict comprehension).                                *)
Lookup(list, name) ==
    CHOOSE i \in 0..(Len(list) - 1) :
        /\ list[i + 1] = name
        /\ \A j \in (i + 1)..(Len(list) - 1) : list[j + 1] # name

data_lookup == [name \in label_set |-> Lookup(label_list, name)]

(***************************************************************************)
(* MicronEnsemble.__init__: the schema of one ensemble.  It has its own    *)
(* derived_vars, no ice_vars, and as many bins as the row's dbytes.        *)
(***************************************************************************)
ens_derived_vars ==
    << "year", "month", "day", "sonar_depth", "sonar_altitude",
       "bearing_bias", "bearing_ref_world", "incidence_angle", "bin_size",
       "intensity_index", "max_intensity", "max_intensity_bin",
       "max_intensity_norm", "peak_start_bin", "peak_start", "peak_end_bin",
       "peak_end", "peak_width_bin", "peak_width" >>

ens_derived_len == Len(ens_derived_vars)

ens_head_list == header_vars \o ens_derived_vars

ens_intensity_index == header_len + ens_derived_len

(* range(n) is empty for n <= 0                                            *)
ens_intensity_vars(n) == BinVars(IF n > 0 THEN n ELSE 0)

ens_label_list(n) == ens_head_list \o ens_intensity_vars(n)

(* the offset of a header or derived name in every ensemble                *)
ens_lookup == [name \in SeqSet(ens_head_list) |-> Lookup(ens_head_list, name)]

(* self.ensemble_size = header_len + derived_len + intensity_len           *)
ens_ensemble_size(n) == header_len + ens_derived_len + n

(***************************************************************************)
(* Text tokens.  A csv row is a list of tokens; a token is a sequence of   *)
(* one-character strings.  int() and float() are modelled by what they do  *)
(* to the characters.                                                      *)
(***************************************************************************)
Digits == {"0", "1", "2", "3", "4", "5", "6", "7", "8", "9"}

DigitVal(c) ==
    CASE c = "0" -> 0 [] c = "1" -> 1 [] c = "2" -> 2 [] c = "3" -> 3
      [] c = "4" -> 4 [] c = "5" -> 5 [] c = "6" -> 6 [] c = "7" -> 7
      [] c = "8" -> 8 [] c = "9" -> 9

Whitespace == {" ", "\n"}

(* str.strip(): drop leading and trailing whitespace                       *)
RECURSIVE LStrip(_)
LStrip(t) == IF Len(t) > 0 /\ t[1] \in Whitespace THEN LStrip(Tail(t)) ELSE t

RECURSIVE RStrip(_)
RStrip(t) ==
    IF Len(t) > 0 /\ t[Len(t)] \in Whitespace
    THEN RStrip(SubSeq(t, 1, Len(t) - 1)) ELSE t

Strip(t) == RStrip(LStrip(t))

(* the value of a sequence of decimal digits                               *)
RECURSIVE DigitsVal(_)
DigitsVal(t) ==
    IF Len(t) = 0 THEN 0
    ELSE 10 * DigitsVal(SubSeq(t, 1, Len(t) - 1)) + DigitVal(t[Len(t)])

AllDigits(t) == Len(t) > 0 /\ \A i \in 1..Len(t) : t[i] \in Digits

(* int() of a token without surrounding whitespace                        *)
IntOfBody(neg, body) ==
    IF AllDigits(body)
    THEN [ok |-> TRUE,
          val |-> IF neg THEN 0 - DigitsVal(body) ELSE DigitsVal(body)]
    ELSE [ok |-> FALSE, val |-> 0]

IntOf(s) ==
    IF Len(s) > 0 /\ s[1] = "-" THEN IntOfBody(TRUE, Tail(s))
    ELSE IntOfBody(FALSE, s)

(* int(token): [ok, val]; not ok stands for the ValueError int() raises.   *)
(* Accepted: optional surrounding whitespace, optional '-', decimal digits.*)
ParseInt(tok) == IntOf(Strip(tok))

(* float() of a token that int() does not accept: an integer part, '.'     *)
(* and one digit                                                           *)
FloatOfParts(s, head) ==
    IF Len(s) >= 3 /\ s[Len(s) - 1] = "." /\ s[Len(s)] \in Digits /\ head.ok
    THEN [ok |-> TRUE,
          val |-> IF s[1] = "-" THEN 10 * head.val - DigitVal(s[Len(s)])
                  ELSE 10 * head.val + DigitVal(s[Len(s)])]
    ELSE [ok |-> FALSE, val |-> 0]

FloatOfInt(s, asInt) ==
    IF asInt.ok THEN [ok |-> TRUE, val |-> 10 * asInt.val]
    ELSE FloatOfParts(s, IntOf(SubSeq(s, 1, Len(s) - 2)))

FloatOf(s) == FloatOfInt(s, IntOf(s))

(* float(token): [ok, val] with val in tenths.  Accepted: what int()       *)
(* accepts, and the same followed by '.' and one digit.                    *)
ParseFloat(tok) == FloatOf(Strip(tok))

(* the time of day of a token without surrounding whitespace               *)
TimeOfParts(shape, h, m, sec) ==
    IF shape /\ h < 24 /\ m < 60 /\ sec < 60
    THEN [ok |-> TRUE, h |-> h, m |-> m, s |-> sec]
    ELSE [ok |-> FALSE, h |-> 0, m |-> 0, s |-> 0]

TimeShape(s) ==
    /\ Len(s) >= 8
    /\ s[3] = ":" /\ s[6] = ":"
    /\ \A i \in {1, 2, 4, 5, 7, 8} : s[i] \in Digits
    /\ (Len(s) > 8 => /\ Len(s) >= 10 /\ s[9] = "."
                      /\ AllDigits(SubSeq(s, 10, Len(s))))

TimeOf(s) ==
    TimeOfParts(TimeShape(s), DigitsVal(SubSeq(s, 1, 2)),
                DigitsVal(SubSeq(s, 4, 5)), DigitsVal(SubSeq(s, 7, 8)))

(* dateutil.parser.parse(token) of a time of day "HH:MM:SS" with an         *)
(* optional fraction ".d..."; [ok, h, m, s].  The fraction is parsed and    *)
(* then dropped by replace(microsecond=0).                                  *)
ParseTime(tok) == TimeOf(Strip(tok))

(* days from 1970-01-01 to a calendar date (proleptic Gregorian)           *)
DaysFromCivil(y, m, d) ==
    LET yy == IF m <= 2 THEN y - 1 ELSE y
        era == yy \div 400
        yoe == yy - era * 400
        mp == IF m > 2 THEN m - 3 ELSE m + 9
        doy == (153 * mp + 2) \div 5 + d - 1
        doe == yoe * 365 + yoe \div 4 - yoe \div 100 + doy
    IN  era * 146097 + doe - 719468

(* datetime.timestamp(): seconds since the epoch (time zone taken as UTC)  *)
Timestamp(date, t) ==
    DaysFromCivil(date[1], date[2], date[3]) * 86400
        + t.h * 3600 + t.m * 60 + t.s

(* datetime.fromtimestamp(v): <<year, month, day, hour, minute, second>>   *)
FromTimestamp(v) ==
    LET days == v \div 86400
        rem == v % 86400
        z == days + 719468
        era == z \div 146097
        doe == z - era * 146097
        yoe == (doe - doe \div 1460 + doe \div 36524 - doe \div 146096) \div 365
        doy == doe - (365 * yoe + yoe \div 4 - yoe \div 100)
        mp == (5 * doy + 2) \div 153
        d == doy - (153 * mp + 2) \div 5 + 1
        m == IF mp < 10 THEN mp + 3 ELSE mp - 9
        y == yoe + era * 400 + (IF m <= 2 THEN 1 ELSE 0)
    IN  << y, m, d, rem \div 3600, (rem % 3600) \div 60, rem % 60 >>

(***************************************************************************)
(* Arithmetic helpers: math.ceil and math.floor of a quotient, abs, and    *)
(* the bounds of a Python slice a[lo:hi] of a sequence of length n.        *)
(***************************************************************************)
Abs(x) == IF x < 0 THEN 0 - x ELSE x

(* floor(a / b), b # 0                                                     *)
FloorDiv(a, b) == IF b > 0 THEN a \div b ELSE (0 - a) \div (0 - b)

(* ceil(a / b), b # 0                                                      *)
CeilDiv(a, b) == 0 - FloorDiv(0 - a, b)

(* a slice bound: negative counts from the end, then clamped to 0..n       *)
SliceBound(k, n) ==
    LET kk == IF k < 0 THEN k + n ELSE k
    IN  IF kk < 0 THEN 0 ELSE IF kk > n THEN n ELSE kk

(* a[lo:hi] for a sequence a (0-based bounds, as in Python)                *)
PySlice(a, lo, hi) ==
    SubSeq(a, SliceBound(lo, Len(a)) + 1, SliceBound(hi, Len(a)))

(* comparisons of cells: false when either side is NaN                     *)
Ge(a, b) == a # NaN /\ b # NaN /\ a >= b
Le(a, b) == a # NaN /\ b # NaN /\ a <= b
Lt(a, b) == a # NaN /\ b # NaN /\ a < b

(***************************************************************************)
(* MicronEnsemble.reorient_bearing (angles in 1/160 degree).               *)
(***************************************************************************)
reorient_bearing_biased(bearing_deg, bias, bearing_bias) ==
    (IF 0 - bearing_deg <= 0 - Deg(180) THEN Deg(360) - bearing_deg
     ELSE 0 - bearing_deg) + bearing_bias

reorient_bearing(bearing_deg, bias, bearing_bias) ==
    LET deg_in_circle == Deg(360)
        deg_in_half == Deg(180)
        neg == 0 - bearing_deg
        wrapped == IF neg <= 0 - deg_in_half THEN neg + deg_in_circle ELSE neg
    IN  IF bias THEN wrapped + bearing_bias ELSE wrapped

(***************************************************************************)
(* MicronEnsemble.parse_header.  Returns [err, hv]: hv maps the header     *)
(* names and the derived names the header stage sets to their values.      *)
(* int() and the date parser raise ValueError; a set_data at an offset     *)
(* outside the array raises IndexError (size is the array's length, which  *)
(* is smaller than the header and derived part when dbytes is negative).   *)
(***************************************************************************)
HeaderTokenError_time_only(csv_row) == ~ParseTime(csv_row[2]).ok

HeaderTokenError(csv_row) ==
    \/ ~ParseTime(csv_row[2]).ok
    \/ \E i \in 3..header_len : ~ParseInt(csv_row[i]).ok

parse_header(csv_row, date, bearing_bias, size) ==
    LET int(name) == ParseInt(csv_row[ens_lookup[name] + 1]).val
        date_time == Timestamp(date, ParseTime(csv_row[2]))
        range_scale == int("range_scale") * dm_to_m_num
        raw_bearing == int("bearing") * grad_to_deg_num
        bearing == reorient_bearing(raw_bearing, FALSE, bearing_bias)
        ref_world == reorient_bearing(raw_bearing, TRUE, bearing_bias)
        left_lim == reorient_bearing(int("left_lim") * grad_to_deg_num,
                                     FALSE, bearing_bias)
        right_lim == reorient_bearing(int("right_lim") * grad_to_deg_num,
                                      FALSE, bearing_bias)
        hv == [name \in SeqSet(ens_head_list) |->
                 CASE name = "line_header" -> 1
                   [] name = "date_time" -> date_time
                   [] name = "range_scale" -> range_scale
                   [] name = "left_lim" -> left_lim
                   [] name = "right_lim" -> right_lim
                   [] name = "steps" -> int("steps") * grad_to_deg_num
                   [] name = "bearing" -> bearing
                   [] name = "ad_low" -> int("ad_low") * bin_to_db_num
                   [] name = "ad_span" -> int("ad_span") * bin_to_db_num
                   [] name = "year" -> date[1]
                   [] name = "month" -> date[2]
                   [] name = "day" -> date[3]
                   [] name = "bearing_bias" -> bearing_bias
                   [] name = "intensity_index" -> ens_intensity_index
                   [] name = "bearing_ref_world" -> ref_world
                   [] name = "incidence_angle" -> Abs(ref_world)
                   [] name \in SeqSet(header_vars) -> int(name)
                   [] OTHER -> 0]
    IN  IF HeaderTokenError(csv_row)
        THEN [err |-> "ValueError", hv |-> << >>]
        ELSE IF size <= ens_lookup["intensity_index"]
        THEN [err |-> "IndexError", hv |-> << >>]
        ELSE [err |-> "none", hv |-> hv]

(***************************************************************************)
(* Intensity bins.  A bin holds tenths of the device scale times 80, that  *)
(* is 1/2550 dB.                                                           *)
(***************************************************************************)
blanking_distance_num == 35
blanking_distance_den == 100
reflection_factor_num == 3
reflection_factor_den == 2

(* float(csv_row[i + header_len]) for i in range(n): the first failure     *)
BinTokenError(csv_row, n) ==
    LET bad(i) == \/ i + header_len > Len(csv_row)
                  \/ ~ParseFloat(csv_row[i + header_len]).ok
        first == CHOOSE i \in 1..n : bad(i) /\ \A j \in 1..(i - 1) : ~bad(j)
    IN  IF \A i \in 1..n : ~bad(i) THEN "none"
        ELSE IF first + header_len > Len(csv_row) THEN "IndexError"
        ELSE "ValueError"

(* the bins after the load and convert_to_metric('intensity', bin_to_db)   *)
LoadBins(csv_row, n) ==
    [i \in 1..n |-> ParseFloat(csv_row[i + header_len]).val * bin_to_db_num]

(* a[lo:hi] = 0 on the data array (0-based bounds, as in Python)           *)
ZeroSlice(a, lo, hi) ==
    LET l == SliceBound(lo, Len(a))
        h == SliceBound(hi, Len(a))
    IN  [i \in 1..Len(a) |-> IF i > l /\ i <= h THEN 0 ELSE a[i]]

(***************************************************************************)
(* MicronEnsemble.filter_blanking_distance.  bin_size is range_scale /     *)
(* dbytes with range_scale in 1/10 m, so blanking_distance / bin_size is   *)
(* (35 * 10 * dbytes) / (100 * range_scale).  range_scale # 0 here.        *)
(***************************************************************************)
blanking_dist_bin_floor(range_scale, dbytes) ==
    FloorDiv(blanking_distance_num * dm_to_m_den * dbytes,
             blanking_distance_den * range_scale)

blanking_dist_bin(range_scale, dbytes) ==
    CeilDiv(blanking_distance_num * dm_to_m_den * dbytes,
            blanking_distance_den * range_scale)

filter_blanking_distance(data_array, range_scale, dbytes) ==
    ZeroSlice(data_array, ens_intensity_index,
              ens_intensity_index + blanking_dist_bin(range_scale, dbytes))

(***************************************************************************)
(* np.cos of a whole number of degrees, times 10000 and rounded.           *)
(***************************************************************************)
CosTable ==
    << 10000, 9998, 9994, 9986, 9976, 9962, 9945, 9925, 9903, 9877, 9848, 9816, 9781,
       9744, 9703, 9659, 9613, 9563, 9511, 9455, 9397, 9336, 9272, 9205, 9135, 9063,
       8988, 8910, 8829, 8746, 8660, 8572, 8480, 8387, 8290, 8192, 8090, 7986, 7880,
       7771, 7660, 7547, 7431, 7314, 7193, 7071, 6947, 6820, 6691, 6561, 6428, 6293,
       6157, 6018, 5878, 5736, 5592, 5446, 5299, 5150, 5000, 4848, 4695, 4540, 4384,
       4226, 4067, 3907, 3746, 3584, 3420, 3256, 3090, 2924, 2756, 2588, 2419, 2250,
       2079, 1908, 1736, 1564, 1392, 1219, 1045, 872, 698, 523, 349, 175, 0 >>

(* 10000 * cos(angle), angle a whole number of degrees in 1/160 degree     *)
Cos(angle) ==
    LET d == (Abs(angle) \div grad_to_deg_den) % 360
        r == IF d > 180 THEN 360 - d ELSE d
    IN  IF r <= 90 THEN CosTable[r + 1] ELSE 0 - CosTable[180 - r + 1]

(* epsilon = 1e-3, in 1/10000                                              *)
cos_epsilon == 10

(***************************************************************************)
(* MicronEnsemble.filter_reflections.  sonar_depth and sonar_altitude are  *)
(* None or a number of 1/10 m.  dist / bin_size is                         *)
(*   (depth * 3 * 10000 * dbytes) / (2 * cos_bear * range_scale).          *)
(***************************************************************************)
filter_at_dist(data_array, depth, cos_bear, range_scale, dbytes) ==
    LET bin_index == FloorDiv(depth * reflection_factor_num * 10000 * dbytes,
                              reflection_factor_den * cos_bear * range_scale)
    IN  ZeroSlice(data_array, ens_intensity_index + bin_index,
                  Len(data_array))

(* Python truth of an optional number: None and 0 are false                *)
Truthy(x) == x # None /\ x # 0

filter_reflections(data_array, ref_world, sonar_depth, sonar_altitude, range_scale, dbytes) ==
    LET cos_bear == Abs(Cos(ref_world))
        surface == IF /\ Truthy(sonar_depth)
                      /\ Abs(ref_world) < Deg(90)
                      /\ cos_bear >= cos_epsilon
                   THEN filter_at_dist(data_array, sonar_depth, cos_bear,
                                       range_scale, dbytes)
                   ELSE data_array
    IN  IF /\ Truthy(sonar_altitude)
           /\ Abs(ref_world) > Deg(90)
           /\ cos_bear >= cos_epsilon
        THEN filter_at_dist(surface, sonar_altitude, cos_bear,
                            range_scale, dbytes)
        ELSE surface

(***************************************************************************)
(* MicronEnsemble.get_peak_width and parse_derived_vars.                   *)
(***************************************************************************)
roll_median_len == 5
conv_kernel_len == 5

(* np.max and np.argmax (first maximum, 0-based) of a non-empty sequence   *)
Max(a) == CHOOSE v \in SeqSet(a) : \A i \in 1..Len(a) : a[i] <= v

ArgMax(a) ==
    LET m == Max(a)
    IN  (CHOOSE i \in 1..Len(a) :
            a[i] = m /\ \A j \in 1..(i - 1) : a[j] # m) - 1

(* np.argmax of a boolean array: the first TRUE, or 0 when there is none   *)
ArgMaxBool(b) ==
    IF \E i \in 1..Len(b) : b[i]
    THEN (CHOOSE i \in 1..Len(b) : b[i] /\ \A j \in 1..(i - 1) : ~b[j]) - 1
    ELSE 0

(* the median of an odd number of values                                   *)
Median(w) ==
    LET half == Len(w) \div 2
    IN  CHOOSE v \in SeqSet(w) :
            /\ Cardinality({i \in 1..Len(w) : w[i] < v}) <= half
            /\ Cardinality({i \in 1..Len(w) : w[i] <= v}) > half

(* rolling(roll_median_len, center=True).median().replace(nan, 0)          *)
RollingMedian(a) ==
    LET h == roll_median_len \div 2
    IN  [i \in 1..Len(a) |->
            IF i - h >= 1 /\ i + h <= Len(a)
            THEN Median(SubSeq(a, i - h, i + h)) ELSE 0]

(* the two threshold assignments, in the order the code makes them         *)
Threshold(bin_roll) ==
    LET m == IF Len(bin_roll) = 0 THEN 0 ELSE Max(bin_roll)
        low == [i \in 1..Len(bin_roll) |->
                   IF 2 * bin_roll[i] < m THEN 0 ELSE bin_roll[i]]
    IN  [i \in 1..Len(low) |-> IF 2 * low[i] >= m THEN 1 ELSE low[i]]

(* np.convolve(a, ones(conv_kernel_len), mode='same'), then > 0 -> 1.      *)
(* The result has max(len(a), conv_kernel_len) entries.                    *)
Convolve(a) ==
    LET n == Len(a)
        k == conv_kernel_len
        out == IF n > k THEN n ELSE k
        short == IF n < k THEN n ELSE k
        skip == short - 1 - (short \div 2)
        full(p) == LET lo == IF p - k + 2 > 1 THEN p - k + 2 ELSE 1
                       hi == IF p + 1 < n THEN p + 1 ELSE n
                   IN  IF \E j \in lo..hi : a[j] > 0 THEN 1 ELSE 0
    IN  [i \in 1..out |-> full(i - 1 + skip)]

(* edges with the end counted from the maximum, not from bin 0            *)
PeakEdges_no_offset(left_of_max, right_of_max, max_intensity_bin) ==
    IF Len(left_of_max) = 0 \/ Len(right_of_max) = 0
    THEN << NaN, NaN >>
    ELSE << Len(left_of_max)
              - ArgMaxBool([i \in 1..Len(left_of_max) |->
                               left_of_max[Len(left_of_max) + 1 - i] = 0]),
            ArgMaxBool([i \in 1..Len(right_of_max) |-> right_of_max[i] = 0]) >>

(* the peak's edges from the two sides of the thresholded array            *)
PeakEdges(left_of_max, right_of_max, max_intensity_bin) ==
    IF Len(left_of_max) = 0 \/ Len(right_of_max) = 0
    THEN << NaN, NaN >>
    ELSE << Len(left_of_max)
              - ArgMaxBool([i \in 1..Len(left_of_max) |->
                               left_of_max[Len(left_of_max) + 1 - i] = 0]),
            ArgMaxBool([i \in 1..Len(right_of_max) |-> right_of_max[i] = 0])
              + max_intensity_bin >>

(* left_of_max and right_of_max of the thresholded array                   *)
PeakSides(bin_threshold, max_intensity_bin) ==
    PeakEdges(PySlice(bin_threshold, 0, max_intensity_bin),
              PySlice(bin_threshold, max_intensity_bin, Len(bin_threshold)),
              max_intensity_bin)

(* <<peak_start_bin, peak_end_bin>>                                        *)
get_peak_width(intensity_data, max_intensity_bin) ==
    PeakSides(Convolve(Threshold(RollingMedian(intensity_data))),
              max_intensity_bin)

(* bins * bin_size in 1/100000 m, rounded down; bin_size = range_scale /   *)
(* dbytes with range_scale in 1/10 m                                       *)
BinsToDist(bins, range_scale, dbytes) ==
    IF bins = NaN THEN NaN ELSE FloorDiv(bins * range_scale * 10000, dbytes)

(* peak_end_bin - peak_start_bin                                           *)
PeakWidthBin(peak) ==
    IF peak[1] = NaN \/ peak[2] = NaN THEN NaN ELSE peak[2] - peak[1]

(* max_intensity * peak_start                                              *)
MaxIntensityNorm(max_intensity, peak_start) ==
    IF peak_start = NaN THEN NaN
    ELSE max_intensity * FloorDiv(peak_start, 1000)

(* the values set from the maximum, its bin and the peak, by name          *)
DerivedVars(max_intensity, max_intensity_bin, peak, range_scale, dbytes) ==
    [max_intensity |-> max_intensity,
     max_intensity_bin |-> max_intensity_bin,
     peak_start_bin |-> peak[1],
     peak_end_bin |-> peak[2],
     peak_width_bin |-> PeakWidthBin(peak),
     peak_start |-> BinsToDist(peak[1], range_scale, dbytes),
     peak_end |-> BinsToDist(peak[2], range_scale, dbytes),
     peak_width |-> BinsToDist(PeakWidthBin(peak), range_scale, dbytes),
     max_intensity_norm |->
         MaxIntensityNorm(max_intensity,
                          BinsToDist(peak[1], range_scale, dbytes))]

(* the peak of the bins whose maximum is in max_intensity_bin              *)
PeakVars(intensity_data, max_intensity, max_intensity_bin, range_scale, dbytes) ==
    DerivedVars(max_intensity, max_intensity_bin,
                get_peak_width(intensity_data, max_intensity_bin),
                range_scale, dbytes)

(* the derived values parse_derived_vars sets, by name                     *)
parse_derived_vars(intensity_data, range_scale, dbytes) ==
    PeakVars(intensity_data, Max(intensity_data), ArgMax(intensity_data),
             range_scale, dbytes)

(***************************************************************************)
(* MicronEnsemble.__init__(csv_row, date, bearing_bias, sonar_depth,       *)
(* sonar_altitude): [err, data_array].  err is "none" or the exception     *)
(* the constructor raises; when it raises there is no ensemble object.     *)
(* The constructor is written as its stages, each handing what it computed *)
(* to the next.                                                            *)
(***************************************************************************)
OptCell(x) == IF x = None THEN NaN ELSE x

derived_names ==
    {"max_intensity", "max_intensity_bin", "max_intensity_norm",
     "peak_start_bin", "peak_start", "peak_end_bin", "peak_end",
     "peak_width_bin", "peak_width"}

Failed(e) == [err |-> e, data_array |-> << >>]

(* the data array after parse_derived_vars                                 *)
WithDerived(filtered, dv) ==
    [err |-> "none",
     data_array |->
         [i \in 1..Len(filtered) |->
             IF i <= ens_intensity_index /\ ens_head_list[i] \in derived_names
             THEN dv[ens_head_list[i]] ELSE filtered[i]]]

(* parse_derived_vars on the filtered data array                           *)
Derive(filtered, range_scale, dbytes) ==
    WithDerived(filtered,
                parse_derived_vars(PySlice(filtered, ens_intensity_index,
                                           Len(filtered)),
                                   range_scale, dbytes))

(* the data array after the header stage, the set_data of sonar_depth and  *)
(* sonar_altitude, bin_size and the load of the bins                       *)
Loaded(hv, bins, sonar_depth, sonar_altitude, dbytes) ==
    [i \in 1..ens_ensemble_size(dbytes) |->
        IF i > ens_intensity_index
        THEN bins[i - ens_intensity_index]
        ELSE CASE ens_head_list[i] = "sonar_depth" -> OptCell(sonar_depth)
               [] ens_head_list[i] = "sonar_altitude" ->
                    OptCell(sonar_altitude)
               [] ens_head_list[i] = "bin_size" ->
                    FloorDiv(hv["range_scale"] * 10000, dbytes)
               [] OTHER -> hv[ens_head_list[i]]]

(* parse_intensity_bins and parse_derived_vars after a header that parsed  *)
ParseBins(csv_row, hv, sonar_depth, sonar_altitude, dbytes, bins_err) ==
    IF bins_err # "none" THEN Failed(bins_err)
    ELSE IF hv["range_scale"] = 0 /\ dbytes = 0 THEN Failed("ValueError")
    ELSE IF hv["range_scale"] = 0 THEN Failed("OverflowError")
    ELSE IF dbytes <= 0 THEN Failed("ValueError")
    ELSE Derive(filter_reflections(
                    filter_blanking_distance(
                        Loaded(hv, LoadBins(csv_row, dbytes), sonar_depth,
                               sonar_altitude, dbytes),
                        hv["range_scale"], dbytes),
                    hv["bearing_ref_world"], sonar_depth, sonar_altitude,
                    hv["range_scale"], dbytes),
                hv["range_scale"], dbytes)

(* the stages after parse_header                                           *)
AfterHeader(csv_row, head, sonar_depth, sonar_altitude, dbytes) ==
    IF head.err # "none" THEN Failed(head.err)
    ELSE ParseBins(csv_row, head.hv, sonar_depth, sonar_altitude, dbytes,
                   BinTokenError(csv_row, dbytes))

(* the array of ensemble_size zeros, the set_data of sonar_depth and       *)
(* sonar_altitude, and the stages                                          *)
Sized(csv_row, date, bearing_bias, sonar_depth, sonar_altitude, dbytes) ==
    IF ens_ensemble_size(dbytes) < 0 THEN Failed("ValueError")
    ELSE IF ens_ensemble_size(dbytes) <= ens_lookup["sonar_altitude"]
    THEN Failed("IndexError")
    ELSE AfterHeader(csv_row,
                     parse_header(csv_row, date, bearing_bias,
                                  ens_ensemble_size(dbytes)),
                     sonar_depth, sonar_altitude, dbytes)

(* intensity_len = int(csv_row[header_vars.index('dbytes')])               *)
WithDbytes(csv_row, date, bearing_bias, sonar_depth, sonar_altitude, dbytes_tok) ==
    IF ~dbytes_tok.ok THEN Failed("ValueError")
    ELSE Sized(csv_row, date, bearing_bias, sonar_depth, sonar_altitude,
               dbytes_tok.val)

MicronEnsemble(csv_row, date, bearing_bias, sonar_depth, sonar_altitude) ==
    IF Len(csv_row) < header_len THEN Failed("IndexError")
    ELSE WithDbytes(csv_row, date, bearing_bias, sonar_depth, sonar_altitude,
                    ParseInt(csv_row[ens_lookup["dbytes"] + 1]))

(***************************************************************************)
(* The csv rows the model decodes.  A row is written from its parameters   *)
(* as the device log holds it: a text marker, a time of day, thirteen      *)
(* numeric header tokens and the intensity tokens, the last token of the   *)
(* line still carrying its newline.                                        *)
(*   p.t       time of day in seconds                                      *)
(*   p.steps, p.bearing   in 1/16 gradian                                  *)
(*   p.dbytes  the declared number of samples                              *)
(*   p.ntok    the number of intensity tokens present                      *)
(*   p.bad     0, or the position (1-based) of a header token written as   *)
(*             the decimal "1.5"                                           *)
(***************************************************************************)
DigitChar(d) ==
    CASE d = 0 -> "0" [] d = 1 -> "1" [] d = 2 -> "2" [] d = 3 -> "3"
      [] d = 4 -> "4" [] d = 5 -> "5" [] d = 6 -> "6" [] d = 7 -> "7"
      [] d = 8 -> "8" [] d = 9 -> "9"

RECURSIVE NatChars(_)
NatChars(n) ==
    IF n < 10 THEN << DigitChar(n) >>
    ELSE NatChars(n \div 10) \o << DigitChar(n % 10) >>

IntChars(n) == IF n < 0 THEN << "-" >> \o NatChars(0 - n) ELSE NatChars(n)

TwoDigits(n) == << DigitChar(n \div 10), DigitChar(n % 10) >>

TimeChars(t) ==
    TwoDigits(t \div 3600) \o << ":" >> \o TwoDigits((t % 3600) \div 60)
        \o << ":" >> \o TwoDigits(t % 60) \o << ".", "5" >>

(* the intensity sample of bin i (0-based): a return around bin 100 on a   *)
(* floor of 10, on the device scale 0..255                                 *)
Sample(i) == IF i >= 100 /\ i <= 120 THEN 200 ELSE 10

MkRow(p) ==
    LET head == << << "S", "O", "N" >>, TimeChars(p.t), IntChars(2),
                   IntChars(16), IntChars(35), IntChars(100), IntChars(40),
                   IntChars(110), IntChars(0), IntChars(255), IntChars(2400),
                   IntChars(4000), IntChars(p.steps), IntChars(p.bearing),
                   IntChars(p.dbytes) >>
        hdr == [i \in 1..header_len |->
                   IF i = p.bad THEN << "1", ".", "5" >> ELSE head[i]]
        bins == [i \in 1..p.ntok |-> IntChars(Sample(i - 1))]
        row == hdr \o bins
    IN  [i \in 1..Len(row) |->
            IF i = Len(row) THEN row[i] \o << "\n" >> ELSE row[i]]

(***************************************************************************)
(* Bounds and inputs of the model.                                         *)
(***************************************************************************)
(* the most add_ensemble calls in a run                                    *)
MaxAppend == 3

(* the dbytes for which an ensemble has as many cells as the table has     *)
(* columns                                                                 *)
FitDbytes == ensemble_size - ens_intensity_index

Row(steps, bearing, dbytes, ntok, bad) ==
    [t |-> 43292, steps |-> steps, bearing |-> bearing, dbytes |-> dbytes,
     ntok |-> ntok, bad |-> bad]

Input(row, bias, depth, alt) ==
    [row |-> row, date |-> << 2020, 1, 24 >>, bias |-> Deg(bias),
     depth |-> depth, alt |-> alt]

(* constructor calls of the ingestion runs: rows that fit the table, a     *)
(* row of 4 samples, one above the capacity of 500, and malformed rows     *)
IngestInputs ==
    { Input(Row(32, 0, FitDbytes, FitDbytes, 0), 0, None, None),
      Input(Row(32, 3200, FitDbytes, FitDbytes, 0), 10, 20, None),
      Input(Row(32, 0, 4, 4, 0), 0, None, None),
      Input(Row(32, 0, intensity_len + 1, intensity_len + 1, 0), 0, None, None),
      Input(Row(32, 0, 4, 2, 0), 0, None, None),
      Input(Row(32, 0, 4, 4, 13), 0, None, None),
      Input(Row(32, 0, 0, 0, 0), 0, None, None),
      Input(Row(32, 0, 4, 4, 15), 0, None, None) }

(* constructor calls whose rows become the rows of the tables              *)
TableInputs ==
    { Input(Row(32, 0, FitDbytes, FitDbytes, 0), 0, None, None),
      Input(Row(32, 3200, FitDbytes, FitDbytes, 0), 10, None, None),
      Input(Row(16, 3040, FitDbytes, FitDbytes, 0), 0, None, None),
      Input(Row(32, 0, FitDbytes, FitDbytes, 0), 10, None, None) }

AllInputs == IngestInputs \cup TableInputs

(* the result of each constructor call of the model, computed once         *)
Decoded ==
    [in \in AllInputs |->
        MicronEnsemble(MkRow(in.row), in.date, in.bias, in.depth, in.alt)]

(***************************************************************************)
(* State.                                                                  *)
(*   ensemble       the ensemble the last constructor call made:           *)
(*                  [made, data_array], made FALSE when none was made      *)
(*   ensemble_list  MicronTimeSeries._ensemble_list (the pending buffer)   *)
(*   df             MicronTimeSeries._df: [is_none, rows]; a row is        *)
(*                  [index, data], data the cells in label_list order      *)
(*   cropped        the _df of the table the last crop_on_bearing returned *)
(*   last           the last call: its name, arguments, the exception it   *)
(*                  raised ("none" when it returned) and, for              *)
(*                  to_dataframe, the number of buffered arrays it found;  *)
(*                  for a call of a function of numbers, args and ret are  *)
(*                  the tuples of its arguments and of what it returned    *)
(*   appended       history: the data arrays add_ensemble was given        *)
(*   materialized   history: Len(appended) at the last to_dataframe call   *)
(*   calls          history: the number of set_label_by_bearing and        *)
(*                  reset_labels calls made                                *)
(*   constructed    history: the constructor calls of SpecDecode, each     *)
(*                  with its input, what it raised, the object it made     *)
(*                  and the buffer and tables before and after it          *)
(*   crop_base      for each row of cropped, the row of the source table   *)
(*                  whose storage it shares, 0 for a row with its own      *)
(***************************************************************************)
VARIABLES ensemble, ensemble_list, df, cropped, last, appended, materialized,
          calls, constructed, crop_base

vars ==
    << ensemble, ensemble_list, df, cropped, last, appended, materialized,
       calls, constructed, crop_base >>

NoneDf == [is_none |-> TRUE, rows |-> << >>]

DataFrame(rows) == [is_none |-> FALSE, rows |-> rows]

NoEnsemble == [made |-> FALSE, data_array |-> << >>]

NoInput == Input(Row(0, 0, 0, 0, 0), 0, None, None)

Call(op, err) ==
    [op |-> op, err |-> err, input |-> NoInput, buffered |-> 0, var |-> "",
     val |-> 0, lo |-> 0, hi |-> 0, pad |-> 0, swath |-> FALSE,
     args |-> << >>, ret |-> << >>]

(* MicronTimeSeries.__init__                                               *)
Init ==
    /\ ensemble = NoEnsemble
    /\ ensemble_list = << >>
    /\ df = NoneDf
    /\ cropped = NoneDf
    /\ last = Call("__init__", "none")
    /\ appended = << >>
    /\ materialized = 0
    /\ calls = 0
    /\ constructed = << >>
    /\ crop_base = << >>

(* a constructor that numbers the objects it makes in the line_header cell *)
Decode_counting(in) ==
    /\ ensemble' = IF Decoded[in].err = "none"
                   THEN [made |-> TRUE,
                         data_array |->
                            IF ensemble.made
                            THEN [Decoded[in].data_array
                                    EXCEPT ![ens_lookup["line_header"] + 1] =
                                       ensemble.data_array[
                                           ens_lookup["line_header"] + 1] + 1]
                            ELSE Decoded[in].data_array]
                   ELSE NoEnsemble
    /\ last' = [Call("MicronEnsemble", Decoded[in].err) EXCEPT !.input = in]
    /\ UNCHANGED << ensemble_list, df, cropped, appended, materialized, calls,
                    crop_base >>

(* ensemble = MicronEnsemble(csv_row, date, bearing_bias, sonar_depth,     *)
(* sonar_altitude), as in the loop of from_raw_csv and micron_reader       *)
Decode(in) ==
    /\ ensemble' = IF Decoded[in].err = "none"
                   THEN [made |-> TRUE, data_array |-> Decoded[in].data_array]
                   ELSE NoEnsemble
    /\ last' = [Call("MicronEnsemble", Decoded[in].err) EXCEPT !.input = in]
    /\ UNCHANGED << ensemble_list, df, cropped, appended, materialized, calls,
                    crop_base >>

(* MicronTimeSeries.add_ensemble(ensemble)                                 *)
add_ensemble ==
    /\ ensemble.made
    /\ Len(appended) < MaxAppend
    /\ ensemble_list' = Append(ensemble_list, ensemble.data_array)
    /\ appended' = Append(appended, ensemble.data_array)
    /\ last' = Call("add_ensemble", "none")
    /\ UNCHANGED << ensemble, df, cropped, materialized, calls, constructed,
                    crop_base >>

(***************************************************************************)
(* MicronTimeSeries.to_dataframe.                                          *)
(*   np.array(ensemble_list) is two-dimensional only when the arrays have  *)
(*   one length; otherwise numpy raises, or builds an array of objects on  *)
(*   which ts[:,t_index] raises.  pd.DataFrame raises ValueError when the  *)
(*   arrays' length is not the number of columns, len(label_list).         *)
(***************************************************************************)
(* "if self.ensemble_list": a list is true when it is not empty            *)
HasEnsembles_always(list) == TRUE

HasEnsembles(list) == list # << >>

Ragged(list) == \E i, j \in 1..Len(list) : Len(list[i]) # Len(list[j])

(* the exception the conversion raises on the buffered arrays, or "none"   *)
(* (np.array([]) has one dimension: ts[:,t_index] raises IndexError)       *)
ToDataframeError(list) ==
    IF list = << >> THEN "IndexError"
    ELSE IF Ragged(list) THEN "ValueError"
    ELSE IF Len(list[1]) # Len(label_list) THEN "ValueError"
    ELSE "none"

(* new_df: one row per buffered array, indexed by its date_time            *)
NewRows(list) ==
    LET t_index == data_lookup["date_time"]
    IN  [i \in 1..Len(list) |->
            [index |-> FromTimestamp(list[i][t_index + 1]), data |-> list[i]]]

to_dataframe ==
    /\ materialized' = Len(appended)
    /\ IF HasEnsembles(ensemble_list)
       THEN LET err == ToDataframeError(ensemble_list)
            IN  /\ last' = [Call("to_dataframe", err)
                              EXCEPT !.buffered = Len(ensemble_list)]
                /\ IF err = "none"
                   THEN /\ df' = IF df.is_none
                                 THEN DataFrame(NewRows(ensemble_list))
                                 ELSE DataFrame(df.rows \o NewRows(ensemble_list))
                        /\ ensemble_list' = << >>
                   ELSE UNCHANGED << df, ensemble_list >>
       ELSE /\ last' = Call("to_dataframe", "none")
            /\ UNCHANGED << df, ensemble_list >>
    /\ UNCHANGED << ensemble, cropped, appended, calls, constructed,
                    crop_base >>

(***************************************************************************)
(* Ingestion: constructor calls, add_ensemble and to_dataframe.            *)
(***************************************************************************)
NextIngest ==
    \/ \E in \in IngestInputs : Decode(in) /\ UNCHANGED constructed
    \/ add_ensemble
    \/ to_dataframe

SpecIngest == Init /\ [][NextIngest]_vars

(***************************************************************************)
(* Properties of ingestion.                                                *)
(***************************************************************************)
(* the data of the materialized rows, in table order                       *)
TableData == [i \in 1..Len(df.rows) |-> df.rows[i].data]

(* C1: after any sequence of add_ensemble and to_dataframe calls the table *)
(* holds exactly the arrays appended before the last to_dataframe call, in *)
(* append order, and the buffer exactly those appended since.              *)
C1_TableHoldsAppended ==
    /\ TableData = SubSeq(appended, 1, materialized)
    /\ ensemble_list = SubSeq(appended, materialized + 1, Len(appended))

(* C2: to_dataframe called on an empty buffer raises nothing and leaves    *)
(* the table and the buffer as they were.                                  *)
C2_EmptyMaterializeIsNoOp ==
    [][(last'.op = "to_dataframe" /\ ensemble_list = << >>)
          => /\ last'.err = "none"
             /\ df' = df
             /\ ensemble_list' = << >>]_vars

(* a second to_dataframe on a table that has rows, the buffer empty        *)
C2_Witness ==
    /\ last.op = "to_dataframe" /\ last.buffered = 0 /\ last.err = "none"
    /\ ~df.is_none /\ Len(df.rows) > 0

(* C9: a constructor call on a row whose dbytes exceeds the capacity of    *)
(* intensity_len bins raises, makes no ensemble and stores no bin past     *)
(* the capacity.                                                           *)
C9_OverCapacityRejected ==
    /\ (last.op = "MicronEnsemble" /\ last.input.row.dbytes > intensity_len)
           => (last.err # "none" /\ ~ensemble.made)
    /\ ensemble.made
           => Len(ensemble.data_array) - ens_intensity_index <= intensity_len

(* the row has a numeric header token that is no integer, or fewer than    *)
(* header_len + dbytes tokens                                              *)
Malformed(p) == (p.bad >= 3 /\ p.bad <= header_len) \/ p.ntok < p.dbytes

(* C10: a constructor call on a malformed row raises and makes no          *)
(* ensemble, and leaves the buffer and the table as they were.             *)
C10_MalformedRejectedWhole ==
    [][(last'.op = "MicronEnsemble" /\ Malformed(last'.input.row))
          => /\ last'.err # "none"
             /\ ~ensemble'.made
             /\ ensemble_list' = ensemble_list
             /\ df' = df]_vars

(* a malformed row met while the buffer holds earlier rows                 *)
C10_Witness ==
    /\ last.op = "MicronEnsemble" /\ last.input.row.bad = 13
    /\ last.err = "ValueError" /\ ~ensemble.made
    /\ Len(ensemble_list) > 0

(***************************************************************************)
(* Tables: the state from_raw_csv leaves, a table of decoded rows with an  *)
(* empty buffer (no table when no row was read).                           *)
(***************************************************************************)
(* the most rows of a table that is cropped                                *)
MaxRows == 3

(* the most rows of a table that is labelled                               *)
MaxLabelRows == 2

(* the most set_label_by_bearing and reset_labels calls in a run           *)
MaxCalls == 2

(* the state after the rows of ins were decoded and appended in order and  *)
(* to_dataframe was called                                                 *)
Materialized(ins) ==
    LET list == [i \in 1..Len(ins) |-> Decoded[ins[i]].data_array]
    IN  /\ ensemble = IF ins = << >> THEN NoEnsemble
                      ELSE [made |-> TRUE, data_array |-> list[Len(list)]]
        /\ ensemble_list = << >>
        /\ df = IF ins = << >> THEN NoneDf ELSE DataFrame(NewRows(list))
        /\ cropped = NoneDf
        /\ last = [Call("to_dataframe", "none") EXCEPT !.buffered = Len(ins)]
        /\ appended = list
        /\ materialized = Len(ins)
        /\ calls = 0
        /\ constructed = << >>
        /\ crop_base = << >>

InitTable(n) ==
    \E len \in 0..n : \E ins \in [1..len -> TableInputs] : Materialized(ins)

(* the cell of column var in a row of the table                            *)
Cell(row, var) == row.data[data_lookup[var] + 1]

(***************************************************************************)
(* MicronTimeSeries.set_label_by_bearing(var, val, bearing_min,            *)
(* bearing_max, pad).  bearing_min, bearing_max and pad are in degrees;    *)
(* val is in the unit of the cells of column var.                          *)
(***************************************************************************)
InBearingWindow_closed(bearing, bearing_min, bearing_max, pad) ==
    /\ Ge(bearing, Deg(bearing_min + pad))
    /\ Le(bearing, Deg(bearing_max - pad))

(* (df.bearing >= bearing_min + pad) & (df.bearing < bearing_max - pad)    *)
InBearingWindow(bearing, bearing_min, bearing_max, pad) ==
    /\ Ge(bearing, Deg(bearing_min + pad))
    /\ Lt(bearing, Deg(bearing_max - pad))

(* df.loc[mask, var] = val                                                 *)
LabelRows(rows, var, val, bearing_min, bearing_max, pad) ==
    [i \in 1..Len(rows) |->
        IF InBearingWindow(Cell(rows[i], "bearing"), bearing_min,
                           bearing_max, pad)
        THEN [rows[i] EXCEPT !.data[data_lookup[var] + 1] = val]
        ELSE rows[i]]

(* the exception the call raises, or "none": ValueError for a name that is *)
(* not in label_set, AttributeError of self.df.loc when there is no table  *)
LabelError(var) ==
    IF var \notin label_set THEN "ValueError"
    ELSE IF df.is_none THEN "AttributeError"
    ELSE "none"

set_label_by_bearing(var, val, bearing_min, bearing_max, pad) ==
    /\ calls < MaxCalls
    /\ calls' = calls + 1
    /\ last' = [Call("set_label_by_bearing", LabelError(var))
                  EXCEPT !.var = var, !.val = val, !.lo = bearing_min,
                         !.hi = bearing_max, !.pad = pad]
    /\ df' = IF LabelError(var) = "none"
             THEN DataFrame(LabelRows(df.rows, var, val, bearing_min,
                                      bearing_max, pad))
             ELSE df
    /\ UNCHANGED << ensemble, ensemble_list, cropped, appended, materialized,
                    constructed,
                    crop_base >>

(***************************************************************************)
(* MicronTimeSeries.reset_labels.                                          *)
(***************************************************************************)
(* var[:5] == "label"                                                      *)
HasLabelPrefix(var) == SubSeq(var, 1, 5) = "label"

(* labels = [var for var in self.ice_vars if var[:5]=="label"]             *)
labels == SelectSeq(ice_vars, HasLabelPrefix)

(* the loop over labels, each a set_label_by_bearing(label, nan, -180,     *)
(* 180) call                                                               *)
RECURSIVE ResetRows(_, _)
ResetRows(rows, todo) ==
    IF todo = << >> THEN rows
    ELSE ResetRows(LabelRows(rows, Head(todo), NaN, -180, 180, 0), Tail(todo))

reset_labels ==
    /\ calls < MaxCalls
    /\ calls' = calls + 1
    /\ last' = Call("reset_labels", IF labels = << >> THEN "none"
                                    ELSE LabelError(Head(labels)))
    /\ df' = IF df.is_none THEN df ELSE DataFrame(ResetRows(df.rows, labels))
    /\ UNCHANGED << ensemble, ensemble_list, cropped, appended, materialized,
                    constructed,
                    crop_base >>

(***************************************************************************)
(* MicronTimeSeries.crop_on_bearing(left_angle, right_angle,               *)
(* single_swath), the angles in degrees.                                   *)
(***************************************************************************)
InCrop_nowrap(w, left_angle, right_angle) ==
    Ge(w, Deg(left_angle)) /\ Le(w, Deg(right_angle))

(* the mask on bearing_ref_world: an interval when right_angle >           *)
(* left_angle, else the union of two rays                                  *)
InCrop(w, left_angle, right_angle) ==
    IF right_angle > left_angle
    THEN Ge(w, Deg(left_angle)) /\ Le(w, Deg(right_angle))
    ELSE Ge(w, Deg(left_angle)) \/ Le(w, Deg(right_angle))

RECURSIVE CropRows(_, _, _)
CropRows(rows, left_angle, right_angle) ==
    IF rows = << >> THEN << >>
    ELSE LET rest == CropRows(Tail(rows), left_angle, right_angle)
         IN  IF InCrop(Cell(Head(rows), "bearing_ref_world"), left_angle,
                       right_angle)
             THEN << Head(rows) >> \o rest
             ELSE rest

(* the 0.1 degree taken off the step size                                  *)
swath_epsilon == Deg(1) \div 10

swath_single(steps, left_angle, right_angle) ==
    CeilDiv(Deg(Abs(right_angle - left_angle)), steps - swath_epsilon)

(* swath = math.ceil(abs(right_angle-left_angle)/steps)*2, steps the cell  *)
(* less 0.1                                                                *)
swath(steps, left_angle, right_angle) ==
    CeilDiv(Deg(Abs(right_angle - left_angle)), steps - swath_epsilon) * 2

(* the rows of the returned table                                          *)
Cropped(rows, left_angle, right_angle, single_swath) ==
    LET sel == CropRows(rows, left_angle, right_angle)
    IN  IF single_swath
        THEN PySlice(sel, 0, swath(Cell(rows[1], "steps"), left_angle,
                                   right_angle))
        ELSE sel

(* the positions, in the source table, of the rows the mask selects        *)
RECURSIVE CropPositions(_, _, _, _)
CropPositions(rows, k, left_angle, right_angle) ==
    IF k > Len(rows) THEN << >>
    ELSE (IF InCrop(Cell(rows[k], "bearing_ref_world"), left_angle,
                    right_angle)
          THEN << k >> ELSE << >>)
           \o CropPositions(rows, k + 1, left_angle, right_angle)

(* the positions, in the source table, of the rows of the returned table   *)
CroppedPositions(rows, left_angle, right_angle, single_swath) ==
    LET sel == CropPositions(rows, 1, left_angle, right_angle)
    IN  IF single_swath
        THEN PySlice(sel, 0, swath(Cell(rows[1], "steps"), left_angle,
                                   right_angle))
        ELSE sel

(* a selection kept as a view of the source table's rows                   *)
CropStorage_view(positions) == positions

(* self.df[mask].copy(): every row of the returned table has storage of    *)
(* its own; ts.df[:swath] slices that copy                                 *)
CropStorage(positions) == [i \in 1..Len(positions) |-> 0]

crop_on_bearing(left_angle, right_angle, single_swath) ==
    /\ last' = [Call("crop_on_bearing",
                     IF df.is_none THEN "AttributeError" ELSE "none")
                  EXCEPT !.lo = left_angle, !.hi = right_angle,
                         !.swath = single_swath]
    /\ cropped' = IF df.is_none THEN cropped
                  ELSE DataFrame(Cropped(df.rows, left_angle, right_angle,
                                         single_swath))
    /\ crop_base' = IF df.is_none THEN crop_base
                    ELSE CropStorage(CroppedPositions(df.rows, left_angle,
                                                      right_angle,
                                                      single_swath))
    /\ UNCHANGED << ensemble, ensemble_list, df, appended, materialized,
                    calls, constructed >>

(***************************************************************************)
(* Labelling runs and cropping runs.                                       *)
(***************************************************************************)
(* a label field, a field of the header and a name that is no field        *)
LabelFields == { "label_ice_category", "bearing", "no_such_field" }

(* << bearing_min, bearing_max, pad >>                                     *)
LabelWindows ==
    { << -180, 180, 0 >>, << 0, 180, 0 >>, << -180, 10, 5 >>,
      << -10, 10, 10 >> }

NextLabel ==
    \/ \E var \in LabelFields : \E w \in LabelWindows :
           set_label_by_bearing(var, 1, w[1], w[2], w[3])
    \/ reset_labels

SpecLabel == InitTable(MaxLabelRows) /\ [][NextLabel]_vars

(* << left_angle, right_angle >>                                           *)
CropWindows ==
    { << -180, 180 >>, << 170, -170 >>, << 0, 10 >>, << 0, 0 >>, << 1, 0 >> }

NextCrop ==
    \E w \in CropWindows : \E single_swath \in BOOLEAN :
        crop_on_bearing(w[1], w[2], single_swath)

SpecCrop == InitTable(MaxRows) /\ [][NextCrop]_vars

(***************************************************************************)
(* Properties of labelling.                                                *)
(***************************************************************************)
(* the index, in a row's data, of the columns of the label fields          *)
LabelColumns == { data_lookup[labels[k]] + 1 : k \in 1..Len(labels) }

(* C3: set_label_by_bearing called with a name that is not one of the      *)
(* classification and label fields raises and leaves every cell of the     *)
(* table as it was.                                                        *)
C3_NonLabelFieldRejected ==
    [][(last'.op = "set_label_by_bearing" /\ last'.var \notin SeqSet(ice_vars))
          => (last'.err # "none" /\ df' = df)]_vars

C5_ResetClearsEveryLabel ==
    [][(last'.op = "reset_labels" /\ last'.err = "none")
          => /\ Len(df'.rows) = Len(df.rows)
             /\ \A i \in 1..Len(df.rows) : \A c \in 1..ensemble_size :
                   df'.rows[i].data[c] =
                       IF c \in LabelColumns THEN NaN
                       ELSE df.rows[i].data[c]]_vars

(***************************************************************************)
(* Properties of cropping.                                                 *)
(***************************************************************************)
(* C6: crop_on_bearing(-180, 180) returns the rows of the source table, in *)
(* the same order and with the same values, whatever the bearings and      *)
(* bearing biases the rows were decoded with.                              *)
C6_FullWindowIsIdentity ==
    (/\ last.op = "crop_on_bearing" /\ last.err = "none"
     /\ last.lo = -180 /\ last.hi = 180 /\ ~last.swath)
        => cropped = df

(* the rows of a table whose world-referenced bearing w is in the window   *)
(* of C7, in table order                                                   *)
WorldWindowRows(rows, left, right) ==
    LET In(r) ==
            LET w == Cell(r, "bearing_ref_world")
            IN  /\ w # NaN
                /\ IF right > left
                   THEN left * grad_to_deg_den <= w /\ w <= right * grad_to_deg_den
                   ELSE left * grad_to_deg_den <= w \/ w <= right * grad_to_deg_den
    IN  SelectSeq(rows, In)

(* C7: crop_on_bearing(left, right) without single_swath returns, in       *)
(* source order, exactly the rows with left <= w <= right when right >     *)
(* left, and exactly the rows with w >= left or w <= right otherwise.      *)
C7_CropSelectsWindow ==
    (last.op = "crop_on_bearing" /\ last.err = "none" /\ ~last.swath)
        => /\ ~cropped.is_none
           /\ cropped.rows = WorldWindowRows(df.rows, last.lo, last.hi)

(* a window across the seam (left > right) that keeps some rows of the     *)
(* table and drops others                                                  *)
C7_Witness ==
    /\ last.op = "crop_on_bearing" /\ last.err = "none" /\ ~last.swath
    /\ last.lo > last.hi
    /\ Len(cropped.rows) > 0
    /\ Len(cropped.rows) < Len(df.rows)

(* K of C8 for the table and the window of the last call: steps is the     *)
(* step size of the first row, epsilon a tenth of a degree                 *)
SwathK ==
    LET a == Abs(last.hi - last.lo) * grad_to_deg_den
        b == Cell(df.rows[1], "steps") - grad_to_deg_den \div 10
    IN  2 * (CHOOSE k \in 0..a : k * b >= a /\ (k - 1) * b < a)

(* C8: crop_on_bearing with single_swath returns the first K rows of the   *)
(* bearing-cropped table, all of them when it has fewer than K.            *)
C8_SwathIsFirstK ==
    (last.op = "crop_on_bearing" /\ last.err = "none" /\ last.swath)
        => LET sel == WorldWindowRows(df.rows, last.lo, last.hi)
               K == SwathK
           IN  /\ ~cropped.is_none
               /\ cropped.rows =
                      SubSeq(sel, 1, IF Len(sel) < K THEN Len(sel) ELSE K)

(* a swath cut short: the window holds three rows and K is two             *)
C8_Witness ==
    /\ last.op = "crop_on_bearing" /\ last.err = "none" /\ last.swath
    /\ Len(WorldWindowRows(df.rows, last.lo, last.hi)) = 3
    /\ SwathK = 2
    /\ Len(cropped.rows) = 2

(***************************************************************************)
(* Properties of the schema and of the decoded records.                    *)
(***************************************************************************)
(* C11: the field list of the schema (header, derived, ice and intensity   *)
(* names in that order) has no name twice, data_lookup is defined on       *)
(* exactly its names and gives the i-th name the offset i - 1, its length  *)
(* is the sum of the four group lengths, and every row of the table has    *)
(* that many cells.                                                        *)
C11_SchemaOffsetsContiguous ==
    /\ label_list = header_vars \o derived_vars \o ice_vars \o intensity_vars
    /\ Cardinality(SeqSet(label_list)) = Len(label_list)
    /\ DOMAIN data_lookup = SeqSet(label_list)
    /\ \A i \in 1..Len(label_list) : data_lookup[label_list[i]] = i - 1
    /\ ensemble_size = header_len + derived_len + ice_len + intensity_len
    /\ \A i \in 1..Len(df.rows) : Len(df.rows[i].data) = ensemble_size

(* a table of two rows, stacked under the one field list                   *)
C11_Witness ==
    /\ ~df.is_none /\ Len(df.rows) = 2
    /\ last.op = "to_dataframe" /\ last.err = "none"
    /\ DOMAIN df.rows[1].data = 1..Len(label_list)

(* C12: every record the constructor makes has the length of the schema,   *)
(* header, derived, ice and intensity_len bins, whatever its dbytes, and   *)
(* its bins from dbytes on are zero.                                       *)
C12_FixedRecordLength ==
    (last.op = "MicronEnsemble" /\ ensemble.made)
        => /\ Len(ensemble.data_array) = ensemble_size
           /\ \A k \in last.input.row.dbytes..(intensity_len - 1) :
                 ensemble.data_array[intensity_index + k + 1] = 0

(* C13: in every record the constructor makes, each of the 13 fields of    *)
(* ice_vars is NaN.                                                        *)
C13_IceFieldsStartNaN ==
    ensemble.made
        => \A k \in 1..ice_len :
              /\ data_lookup[ice_vars[k]] + 1 <= Len(ensemble.data_array)
              /\ ensemble.data_array[data_lookup[ice_vars[k]] + 1] = NaN

(* C14: for every row of the table and every field name of the decoder,    *)
(* the cell of the table's column of that name is the value the decoder    *)
(* stored under that name in the appended array, and the array has as many *)
(* cells as the table has columns.                                         *)
C14_OneFieldList ==
    \A i \in 1..Len(df.rows) :
        /\ Len(appended[i]) = Len(label_list)
        /\ \A f \in SeqSet(ens_head_list) \cap label_set :
              Cell(df.rows[i], f) = appended[i][ens_lookup[f] + 1]

(***************************************************************************)
(* Calls of reorient_bearing on its own, and constructor calls.            *)
(***************************************************************************)
(* the angles, in degrees, reorient_bearing is called with                 *)
Angles == { 0, 1, 90, 179, 180, 181, 200, 270, 359, 360 }

(* the bearing biases, in degrees                                          *)
Biases == { 0, 10, -10 }

(* ensemble.reorient_bearing(bearing_deg, bias) on an ensemble whose       *)
(* bearing_bias cell holds bearing_bias                                    *)
CallReorient(bearing_deg, bias, bearing_bias) ==
    /\ last' = [Call("reorient_bearing", "none")
                  EXCEPT !.args = << bearing_deg, bias, bearing_bias >>,
                         !.ret = << reorient_bearing(bearing_deg, bias,
                                                     bearing_bias) >>]
    /\ UNCHANGED << ensemble, ensemble_list, df, cropped, appended,
                    materialized, calls, constructed,
                    crop_base >>

NextReorient ==
    \/ \E d \in Angles : \E bias \in BOOLEAN : \E b \in Biases :
           CallReorient(Deg(d), bias, Deg(b))
    \/ \E in \in TableInputs : Decode(in) /\ UNCHANGED constructed

SpecReorient == Init /\ [][NextReorient]_vars

(* the cell of a header or derived name in a decoded data array            *)
EnsCell(data_array, name) == data_array[ens_lookup[name] + 1]

(* an angle negated into (-180, 180] degrees, in 1/160 degree              *)
Negated(a) ==
    IF 0 - a <= 0 - 180 * grad_to_deg_den THEN 0 - a + 360 * grad_to_deg_den
    ELSE 0 - a

(* what reorient_bearing returns for the arguments of the last call, by    *)
(* the rule of C15                                                         *)
ReorientRule ==
    IF last.args[2] THEN Negated(last.args[1]) + last.args[3]
    ELSE Negated(last.args[1])

(* in the record the last constructor call made, bearing_ref_world is      *)
(* bearing plus the bias, and bearing, left_lim and right_lim are the      *)
(* negated, wrapped device angles whatever the bias                        *)
DecodedBearings ==
    (last.op = "MicronEnsemble" /\ ensemble.made)
        => /\ EnsCell(ensemble.data_array, "bearing") =
                  Negated(last.input.row.bearing * grad_to_deg_num)
           /\ EnsCell(ensemble.data_array, "bearing_ref_world") =
                  EnsCell(ensemble.data_array, "bearing") + last.input.bias
           /\ EnsCell(ensemble.data_array, "left_lim") =
                  Negated(2400 * grad_to_deg_num)
           /\ EnsCell(ensemble.data_array, "right_lim") =
                  Negated(4000 * grad_to_deg_num)

(* C15 as stated: reorient_bearing negates the angle and adds 360 degrees  *)
(* when the negated angle is <= -180; with bias set it then adds the       *)
(* bearing bias, without it the bias has no effect; reorient(0) = 0 and    *)
(* reorient(200) = -160; in a decoded record bearing_ref_world is bearing  *)
(* plus the bias, and bearing, left_lim and right_lim do not depend on     *)
(* the bias.                                                               *)
C15_Reorient200IsMinus160 ==
    /\ last.op = "reorient_bearing"
          => /\ last.ret[1] = ReorientRule
             /\ (last.args[1] = 0 /\ ~last.args[2]) => last.ret[1] = 0
             /\ (last.args[1] = 200 * grad_to_deg_den /\ ~last.args[2])
                   => last.ret[1] = 0 - 160 * grad_to_deg_den
    /\ DecodedBearings

(* C15, amended: the same with reorient(200) = +160, which is what the     *)
(* rule gives (-200 + 360).                                                *)
C15_ReorientNegatesWrapsAndBiases ==
    /\ last.op = "reorient_bearing"
          => /\ last.ret[1] = ReorientRule
             /\ (last.args[1] = 0 /\ ~last.args[2]) => last.ret[1] = 0
             /\ (last.args[1] = 200 * grad_to_deg_den /\ ~last.args[2])
                   => last.ret[1] = 160 * grad_to_deg_den
    /\ DecodedBearings

(* reorient_bearing(200) without bias on an ensemble whose bias is 10      *)
(* degrees: the wrap at work, the bias without effect                      *)
C15_Witness ==
    /\ last.op = "reorient_bearing"
    /\ last.args = << Deg(200), FALSE, Deg(10) >>
    /\ last.ret = << Deg(160) >>

(***************************************************************************)
(* Calls of the stages of the constructor on their own: the filters, on a  *)
(* data array whose bins are loaded and converted, and get_peak_width.     *)
(***************************************************************************)
(* the most bins of a data array the stages are called on                  *)
MaxBins == 8

(* the largest range_scale, in 1/10 m, the stages are called with          *)
MaxRangeScale == 20

(* the constructor runs each stage once, on the record it is building      *)
UnderConstruction == last.op = "__init__"

(* header and derived cells when the filters run: no two alike and none    *)
(* zero up to intensity_index, the cells parse_derived_vars sets still 0   *)
StageHead ==
    [i \in 1..ens_intensity_index |->
        IF i <= ens_lookup["intensity_index"] + 1 THEN i ELSE 0]

(* bins that rise with the range: bin i holds the device value i + 1       *)
Ramp(n) == [i \in 1..n |-> 10 * bin_to_db_num * i]

StageArray(n) == StageHead \o Ramp(n)

(* self.filter_blanking_distance() on a data array of dbytes bins          *)
CallBlanking(range_scale, dbytes) ==
    /\ UnderConstruction
    /\ last' = [Call("filter_blanking_distance", "none")
                  EXCEPT !.args = << StageArray(dbytes), range_scale, dbytes >>,
                         !.ret = << filter_blanking_distance(
                                        StageArray(dbytes), range_scale,
                                        dbytes) >>]
    /\ UNCHANGED << ensemble, ensemble_list, df, cropped, appended,
                    materialized, calls, constructed,
                    crop_base >>

(* world bearings, in degrees, and depths or altitudes, in 1/10 m, the     *)
(* reflection filter is called with                                        *)
WorldBearings == { 0, 30, 45, 89, 90, 91, 120, 135, 180, 190, -45, -135 }

Depths == { None, 0, 2, 5, -13 }

ReflectionRanges == { 4, 10, 20 }

(* self.filter_reflections() on a data array of MaxBins bins               *)
CallReflections(ref_world, sonar_depth, sonar_altitude, range_scale) ==
    /\ UnderConstruction
    /\ last' = [Call("filter_reflections", "none")
                  EXCEPT !.args = << StageArray(MaxBins), ref_world,
                                     sonar_depth, sonar_altitude,
                                     range_scale, MaxBins >>,
                         !.ret = << filter_reflections(
                                        StageArray(MaxBins), ref_world,
                                        sonar_depth, sonar_altitude,
                                        range_scale, MaxBins) >>]
    /\ UNCHANGED << ensemble, ensemble_list, df, cropped, appended,
                    materialized, calls, constructed,
                    crop_base >>

(* intensity arrays of up to MaxBins bins, each bin silent or loud         *)
PeakArrays ==
    UNION { [1..n -> { 0, 10 * bin_to_db_num }] : n \in 1..MaxBins }

(* range_scale, in 1/10 m, of the records whose peak is computed           *)
PeakRange == 10

(* self.parse_derived_vars(), which calls self.get_peak_width(), on a      *)
(* record with the given bins                                              *)
CallPeakWidth(intensity_data) ==
    /\ UnderConstruction
    /\ last' = [Call("parse_derived_vars", "none")
                  EXCEPT !.args = << intensity_data >>,
                         !.ret = << parse_derived_vars(intensity_data,
                                                       PeakRange,
                                                       Len(intensity_data)) >>]
    /\ UNCHANGED << ensemble, ensemble_list, df, cropped, appended,
                    materialized, calls, constructed,
                    crop_base >>

NextStages ==
    \/ \E intensity_data \in PeakArrays : CallPeakWidth(intensity_data)
    \/ \E range_scale \in 1..MaxRangeScale : \E dbytes \in 1..MaxBins :
          CallBlanking(range_scale, dbytes)
    \/ \E w \in WorldBearings : \E depth \in Depths : \E altitude \in Depths :
          \E range_scale \in ReflectionRanges :
             CallReflections(Deg(w), depth, altitude, range_scale)

SpecStages == Init /\ [][NextStages]_vars

(* the bins of a data array of the decoder                                 *)
BinsOf(data_array) ==
    [k \in 1..(Len(data_array) - ens_intensity_index) |->
        data_array[ens_intensity_index + k]]

(* ceil(0.35 / bin_size) for bin_size = (range_scale / 10) / dbytes: the   *)
(* least k with k * bin_size >= 0.35                                       *)
BlankedCount(range_scale, dbytes) ==
    CHOOSE k \in 0..(4 * dbytes) :
        /\ k * 10 * range_scale >= 35 * dbytes
        /\ (k - 1) * 10 * range_scale < 35 * dbytes

(* C16: filter_blanking_distance sets exactly the first ceil(0.35 /        *)
(* bin_size) bins to 0 (7 for a bin_size of 0.05; all bins when there are  *)
(* fewer) and leaves every later bin and every other cell as it was.       *)
C16_BlankingZeroesLeadingBins ==
    last.op = "filter_blanking_distance"
        => LET a == last.args[1]
               k == BlankedCount(last.args[2], last.args[3])
           IN  /\ Len(last.ret[1]) = Len(a)
               /\ \A i \in 1..Len(a) :
                     last.ret[1][i] =
                         IF i > ens_intensity_index /\ i <= ens_intensity_index + k
                         THEN 0 ELSE a[i]
               /\ (last.args[2] = 4 /\ last.args[3] = 8) => k = 7

(* bin_size 0.05 (range_scale 0.4 m, 8 bins): the first 7 bins are zero,   *)
(* the eighth has its value                                                *)
C16_Witness ==
    /\ last.op = "filter_blanking_distance"
    /\ last.args[2] = 4 /\ last.args[3] = 8
    /\ SubSeq(BinsOf(last.ret[1]), 1, 7) = << 0, 0, 0, 0, 0, 0, 0 >>
    /\ BinsOf(last.ret[1])[8] = BinsOf(last.args[1])[8]
    /\ BinsOf(last.ret[1])[8] > 0

(***************************************************************************)
(* The cutoff of the reflection filter for a depth (or altitude) d in      *)
(* 1/10 m is d * 1.5 / cos_bear; bin k (from 0) covers the distances from  *)
(* k * bin_size to (k + 1) * bin_size.  A bin that starts beyond the       *)
(* cutoff is 0, a bin that ends at or before it has its value.             *)
(***************************************************************************)
CutoffRule(before, after, d, cos_bear, range_scale, dbytes) ==
    \A k \in 0..(dbytes - 1) :
        /\ k * range_scale * 2 * cos_bear > d * 3 * 10000 * dbytes
              => after[k + 1] = 0
        /\ (k + 1) * range_scale * 2 * cos_bear <= d * 3 * 10000 * dbytes
              => after[k + 1] = before[k + 1]

(* the gating of the two filters, given which of depth and altitude count  *)
(* as known                                                                *)
ReflectionGating(depth_known, altitude_known) ==
    LET before == BinsOf(last.args[1])
        after == BinsOf(last.ret[1])
        w == last.args[2]
        cos_bear == Abs(Cos(w))
    IN  /\ Len(after) = Len(before)
        /\ (depth_known /\ Abs(w) < Deg(90) /\ cos_bear > cos_epsilon)
              => CutoffRule(before, after, last.args[3], cos_bear,
                            last.args[5], last.args[6])
        /\ (altitude_known /\ Abs(w) > Deg(90) /\ cos_bear > cos_epsilon)
              => CutoffRule(before, after, last.args[4], cos_bear,
                            last.args[5], last.args[6])
        /\ (~depth_known /\ (~altitude_known \/ Abs(w) <= Deg(90)))
              => after = before
        /\ (~altitude_known /\ (~depth_known \/ Abs(w) >= Deg(90)))
              => after = before

(* C17: with sonar_depth known (not None), incidence below 90 degrees and  *)
(* |cos| above epsilon every bin beyond sonar_depth * 1.5 / |cos| is 0 and *)
(* every bin at or before it is kept; the same with sonar_altitude above   *)
(* 90 degrees; a depth (altitude) of None never changes a bin.             *)
C17_ReflectionGating ==
    last.op = "filter_reflections"
        => ReflectionGating(last.args[3] # None, last.args[4] # None)

(* what the code gates on: the truth of the depth and of the altitude      *)
ReflectionGatingOnTruth ==
    (/\ last.op = "filter_reflections"
     /\ last.args[3] = None \/ last.args[3] >= 0
     /\ last.args[4] = None \/ last.args[4] >= 0)
        => ReflectionGating(Truthy(last.args[3]), Truthy(last.args[4]))

(* the bin (from 0) of the only greatest value of a, or -1                 *)
SingleMaxBin(a) ==
    IF \E i \in 1..Len(a) : \A j \in 1..Len(a) : j # i => a[j] < a[i]
    THEN (CHOOSE i \in 1..Len(a) : \A j \in 1..Len(a) : j # i => a[j] < a[i]) - 1
    ELSE 0 - 1

(* C18: the peak's bounds are defined numbers for every intensity array:   *)
(* all bins zero gives peak_start_bin = peak_end_bin, a single maximum at  *)
(* bin 0 gives peak_start_bin = 0, a maximum at the last bin gives         *)
(* peak_end_bin = the last index.                                          *)
C18_PeakBoundsDefined ==
    last.op = "parse_derived_vars"
        => LET a == last.args[1]
               r == last.ret[1]
           IN  /\ r.peak_start_bin # NaN
               /\ r.peak_end_bin # NaN
               /\ (\A i \in 1..Len(a) : a[i] = 0)
                     => r.peak_start_bin = r.peak_end_bin
               /\ SingleMaxBin(a) = 0 => r.peak_start_bin = 0
               /\ r.max_intensity_bin = Len(a) - 1
                     => r.peak_end_bin = Len(a) - 1

(* what the code does: no bounds when the first maximum is at bin 0 (all   *)
(* bins zero included), bounds within the array otherwise, and the last    *)
(* index as the end of a peak whose maximum is the last bin                *)
PeakBoundsOfCode ==
    last.op = "parse_derived_vars"
        => LET a == last.args[1]
               r == last.ret[1]
           IN  IF r.max_intensity_bin = 0
               THEN r.peak_start_bin = NaN /\ r.peak_end_bin = NaN
               ELSE /\ r.peak_start_bin \in 0..r.max_intensity_bin
                    /\ r.peak_end_bin \in r.max_intensity_bin..(Len(a) - 1)
                    /\ r.max_intensity_bin = Len(a) - 1
                          => r.peak_end_bin = Len(a) - 1

(***************************************************************************)
(* Constructor calls in any order, between appends, with every call kept   *)
(* in constructed.                                                         *)
(***************************************************************************)
(* the most constructor calls kept                                         *)
MaxConstructed == 3

(* a row that fits the table, one with a bias and a depth, and a row with  *)
(* fewer tokens than its dbytes                                            *)
DecodeInputs ==
    { Input(Row(32, 0, FitDbytes, FitDbytes, 0), 0, None, None),
      Input(Row(32, 3200, FitDbytes, FitDbytes, 0), 10, 20, None),
      Input(Row(32, 0, 4, 2, 0), 0, None, None) }

(* what is outside the object the constructor makes                        *)
Outside == << ensemble_list, df, cropped, appended, materialized >>

DecodeLogged(in) ==
    /\ Len(constructed) < MaxConstructed
    /\ Decode(in)
    /\ constructed' =
          Append(constructed,
                 [input |-> in, err |-> last'.err, ensemble |-> ensemble',
                  before |-> Outside, after |-> Outside'])

NextDecode ==
    \/ \E in \in DecodeInputs : DecodeLogged(in)
    \/ add_ensemble

SpecDecode == Init /\ [][NextDecode]_vars

MaxFrames == 3

(* column lists of files: the schema's, with two names exchanged, without  *)
(* the last name, with one name more, with one name changed, and the list  *)
(* of an ensemble of as many cells                                         *)
FileColumns ==
    { label_list,
      [label_list EXCEPT ![1] = label_list[2], ![2] = label_list[1]],
      SubSeq(label_list, 1, Len(label_list) - 1),
      Append(label_list, "label"),
      [label_list EXCEPT ![Len(label_list)] = "bin"],
      ens_label_list(FitDbytes) }

(* the rows of files: none, or the row of one ensemble                     *)
FileRows ==
    { << >>,
      NewRows(<< Decoded[Input(Row(32, 0, FitDbytes, FitDbytes, 0),
                               0, None, None)].data_array >>) }

Frames == [columns : FileColumns, rows : FileRows]

(* ts.label_list != tuple(df.columns), compared as sets of names           *)
ColumnsDiffer_as_sets(columns) == label_set # SeqSet(columns)

(* ts.label_list != tuple(df.columns)                                      *)
ColumnsDiffer(columns) == label_list # columns

(* ts = cls(name): a classmethod makes the time series it returns          *)
NewTimeSeries == last.op = "__init__" /\ df.is_none

(* pd.concat(frames): the rows of the frames, one frame after the other;  *)
(* for an empty list pd.concat raises ValueError                           *)
RECURSIVE ConcatRows(_, _)
ConcatRows(frames, n) ==
    IF n = 0 THEN << >> ELSE ConcatRows(frames, n - 1) \o frames[n].rows

(* MicronTimeSeries.from_csv(filepath) for a file that parses to new_df    *)
from_csv(new_df) ==
    /\ NewTimeSeries
    /\ IF ColumnsDiffer(new_df.columns)
       THEN /\ last' = [Call("from_csv", "ValueError")
                          EXCEPT !.args = << new_df.columns >>]
            /\ UNCHANGED df
       ELSE /\ last' = [Call("from_csv", "none")
                          EXCEPT !.args = << new_df.columns >>,
                                 !.ret = << DataFrame(new_df.rows) >>]
            /\ df' = DataFrame(new_df.rows)
    /\ UNCHANGED << ensemble, ensemble_list, cropped, appended, materialized,
                    calls, constructed,
                    crop_base >>

(* MicronTimeSeries.from_frames(frames)                                    *)
from_frames(frames) ==
    /\ NewTimeSeries
    /\ IF \/ \E i \in 1..Len(frames) : ColumnsDiffer(frames[i].columns)
          \/ frames = << >>
       THEN /\ last' = [Call("from_frames", "ValueError")
                          EXCEPT !.args = [i \in 1..Len(frames) |->
                                              frames[i].columns]]
            /\ UNCHANGED df
       ELSE /\ last' = [Call("from_frames", "none")
                          EXCEPT !.args = [i \in 1..Len(frames) |->
                                              frames[i].columns],
                                 !.ret = << DataFrame(ConcatRows(frames,
                                                                 Len(frames))) >>]
            /\ df' = DataFrame(ConcatRows(frames, Len(frames)))
    /\ UNCHANGED << ensemble, ensemble_list, cropped, appended, materialized,
                    calls, constructed,
                    crop_base >>

NextLoad ==
    \/ \E new_df \in Frames : from_csv(new_df)
    \/ \E n \in 0..MaxFrames : \E frames \in [1..n -> Frames] :
          from_frames(frames)

SpecLoad == Init /\ [][NextLoad]_vars

(* the columns are the schema's field list, name by name                   *)
SchemaColumns(columns) ==
    /\ Len(columns) = Len(label_list)
    /\ \A k \in 1..Len(label_list) : columns[k] = label_list[k]

(* C20: from_csv, and from_frames for each of its frames, raise and return *)
(* no table when a column list is not the schema's field list; a table is  *)
(* returned only when every column list is exactly the schema's.           *)
C20_LoadValidatesColumns ==
    last.op \in { "from_csv", "from_frames" }
        => /\ (\E i \in 1..Len(last.args) : ~SchemaColumns(last.args[i]))
                 => /\ last.err = "ValueError"
                    /\ last.ret = << >>
                    /\ df.is_none
           /\ last.ret # << >>
                 => /\ last.err = "none"
                    /\ \A i \in 1..Len(last.args) : SchemaColumns(last.args[i])

(* from_frames refuses a second frame that has the schema's names in       *)
(* another order                                                           *)
C20_Witness ==
    /\ last.op = "from_frames"
    /\ Len(last.args) = 2
    /\ SchemaColumns(last.args[1])
    /\ ~SchemaColumns(last.args[2])
    /\ SeqSet(last.args[2]) = label_set
    /\ last.err = "ValueError"
    /\ last.ret = << >>

(***************************************************************************)
(* The run of 1s of the closed binary array around max_intensity_bin.      *)
(***************************************************************************)
(* the thresholded and convolved array get_peak_width splits               *)
Closed(intensity_data) == Convolve(Threshold(RollingMedian(intensity_data)))

(* the index (from 0) where the run of 1s that holds bin m begins          *)
RunStart(c, m) ==
    CHOOSE s \in 0..m :
        /\ \A k \in s..m : c[k + 1] = 1
        /\ s > 0 => c[s] = 0

(* the index (from 0) of the first 0 at or after bin m, Len(c) if none     *)
RunEnd(c, m) ==
    CHOOSE e \in m..Len(c) :
        /\ \A k \in m..(e - 1) : c[k + 1] = 1
        /\ e < Len(c) => c[e + 1] = 0

(* C21: when max_intensity_bin lies in a run of 1s of the closed array,    *)
(* peak_start_bin is the index where the run begins, also when the run     *)
(* reaches index 0, peak_end_bin is the index of the first 0 at or after   *)
(* max_intensity_bin when there is one, and peak_width_bin is their        *)
(* difference.                                                             *)
C21_PeakIsRunAroundMax ==
    last.op = "parse_derived_vars"
        => LET c == Closed(last.args[1])
               r == last.ret[1]
               m == r.max_intensity_bin
           IN  c[m + 1] = 1
                 => /\ r.peak_start_bin = RunStart(c, m)
                    /\ RunEnd(c, m) < Len(c) => r.peak_end_bin = RunEnd(c, m)
                    /\ r.peak_end_bin # NaN
                    /\ r.peak_width_bin = r.peak_end_bin - r.peak_start_bin

(* what the code does for a maximum past bin 0: without a 0 on the left    *)
(* the peak starts at max_intensity_bin, without a 0 on the right it ends  *)
(* there                                                                   *)
PeakRunOfCode ==
    last.op = "parse_derived_vars"
        => LET c == Closed(last.args[1])
               r == last.ret[1]
               m == r.max_intensity_bin
           IN  (c[m + 1] = 1 /\ m > 0)
                 => /\ r.peak_start_bin =
                          IF RunStart(c, m) = 0 /\ c[1] = 1 THEN m
                          ELSE RunStart(c, m)
                    /\ r.peak_end_bin =
                          IF RunEnd(c, m) = Len(c) THEN m ELSE RunEnd(c, m)
                    /\ r.peak_width_bin = r.peak_end_bin - r.peak_start_bin

(***************************************************************************)
(* The constructor of MicronEnsemble, one stage at a time.  A stage is a   *)
(* stretch of the constructor's code with the fields it reads that it has  *)
(* not written itself and the fields it writes; "intensity" stands for the *)
(* bins.  set_data(var, val) writes the cell and the attribute of the      *)
(* object, and the code reads the attribute: a read before the write       *)
(* raises AttributeError.                                                  *)
(***************************************************************************)
StageOrder_filters_first ==
    << "allocate", "set_depth_altitude", "header_parse", "unit_conversion",
       "intensity_load", "intensity_unit_conversion", "blanking_filter",
       "reflection_filter", "bearing_reorientation", "incidence_angle",
       "bin_size", "max_intensity", "peak_localization", "derived_finalize" >>

(* the order in which __init__, parse_header, parse_intensity_bins and     *)
(* parse_derived_vars run their statements                                 *)
StageOrder ==
    << "allocate", "set_depth_altitude", "header_parse", "unit_conversion",
       "bearing_reorientation", "incidence_angle", "bin_size",
       "intensity_load", "intensity_unit_conversion", "blanking_filter",
       "reflection_filter", "max_intensity", "peak_localization",
       "derived_finalize" >>

StageReads(stage) ==
    CASE stage = "unit_conversion" ->
            { "range_scale", "left_lim", "right_lim", "steps", "bearing",
              "ad_low", "ad_span" }
      [] stage = "bearing_reorientation" ->
            { "bearing", "left_lim", "right_lim", "bearing_bias" }
      [] stage = "incidence_angle" -> { "bearing_ref_world" }
      [] stage = "bin_size" -> { "range_scale", "dbytes" }
      [] stage = "intensity_unit_conversion" ->
            { "intensity_index", "intensity" }
      [] stage = "blanking_filter" -> { "bin_size", "intensity_index" }
      [] stage = "reflection_filter" ->
            { "bearing_ref_world", "sonar_depth", "sonar_altitude",
              "bin_size", "intensity_index" }
      [] stage = "max_intensity" -> { "intensity_index", "intensity" }
      [] stage = "peak_localization" ->
            { "intensity_index", "intensity", "max_intensity_bin" }
      [] stage = "derived_finalize" -> { "bin_size", "max_intensity" }
      [] OTHER -> { }

StageWrites(stage) ==
    CASE stage = "set_depth_altitude" -> { "sonar_depth", "sonar_altitude" }
      [] stage = "header_parse" ->
            SeqSet(header_vars)
                \cup { "year", "month", "day", "bearing_bias",
                       "intensity_index" }
      [] stage = "unit_conversion" ->
            { "range_scale", "left_lim", "right_lim", "steps", "bearing",
              "ad_low", "ad_span" }
      [] stage = "bearing_reorientation" ->
            { "bearing", "bearing_ref_world", "left_lim", "right_lim" }
      [] stage = "incidence_angle" -> { "incidence_angle" }
      [] stage = "bin_size" -> { "bin_size" }
      [] stage = "intensity_load" -> { "intensity" }
      [] stage = "intensity_unit_conversion" -> { "intensity" }
      [] stage = "blanking_filter" -> { "intensity" }
      [] stage = "reflection_filter" -> { "intensity" }
      [] stage = "max_intensity" -> { "max_intensity", "max_intensity_bin" }
      [] stage = "derived_finalize" ->
            { "peak_start_bin", "peak_end_bin", "peak_width_bin",
              "peak_start", "peak_end", "peak_width", "max_intensity_norm" }
      [] OTHER -> { }

(* the stage in which the constructor raises for a row, "" when it returns *)
RaisingStage(csv_row, date, bearing_bias, dbytes_tok) ==
    IF Len(csv_row) < header_len \/ ~dbytes_tok.ok
          \/ ens_ensemble_size(dbytes_tok.val) < 0
    THEN "allocate"
    ELSE IF ens_ensemble_size(dbytes_tok.val) <= ens_lookup["sonar_altitude"]
    THEN "set_depth_altitude"
    ELSE IF parse_header(csv_row, date, bearing_bias,
                         ens_ensemble_size(dbytes_tok.val)).err # "none"
    THEN "header_parse"
    ELSE IF BinTokenError(csv_row, dbytes_tok.val) # "none"
    THEN "intensity_load"
    ELSE IF ParseInt(csv_row[ens_lookup["range_scale"] + 1]).val = 0
    THEN "blanking_filter"
    ELSE IF dbytes_tok.val <= 0 THEN "max_intensity"
    ELSE ""

RaisedAt ==
    [in \in AllInputs |->
        IF Len(MkRow(in.row)) < header_len THEN "allocate"
        ELSE RaisingStage(MkRow(in.row), in.date, in.bias,
                          ParseInt(MkRow(in.row)[ens_lookup["dbytes"] + 1]))]

(* the fields written when the first k stages have run                     *)
RECURSIVE WrittenAfter(_)
WrittenAfter(k) ==
    IF k = 0 THEN { }
    ELSE WrittenAfter(k - 1) \cup StageWrites(StageOrder[k])

(* stage k of the constructor called with input in; last.val is k,         *)
(* last.args the fields written before the stage, those it reads and those *)
(* it writes.  The last stage leaves the object.                           *)
RunStage(k, in) ==
    /\ last' = [Call(StageOrder[k],
                     IF RaisedAt[in] = StageOrder[k]
                     THEN Decoded[in].err ELSE "none")
                  EXCEPT !.input = in, !.val = k,
                         !.args = << WrittenAfter(k - 1),
                                     StageReads(StageOrder[k]),
                                     StageWrites(StageOrder[k]) >>]
    /\ ensemble' = IF k = Len(StageOrder)
                   THEN [made |-> TRUE, data_array |-> Decoded[in].data_array]
                   ELSE NoEnsemble
    /\ UNCHANGED << ensemble_list, df, cropped, appended, materialized, calls,
                    constructed,
                    crop_base >>

(* MicronEnsemble(csv_row, date, ...) is called                            *)
BeginDecode(in) ==
    /\ last.op = "__init__" \/ last.val = Len(StageOrder) \/ last.err # "none"
    /\ RunStage(1, in)

(* the next statement of the constructor runs                              *)
NextStage ==
    /\ last.val \in 1..(Len(StageOrder) - 1)
    /\ last.op = StageOrder[last.val]
    /\ last.err = "none"
    /\ RunStage(last.val + 1, last.input)

NextPipeline ==
    \/ \E in \in AllInputs : BeginDecode(in)
    \/ NextStage

SpecPipeline == Init /\ [][NextPipeline]_vars

(* the stages of the decode, in order                                      *)
DecodeStages ==
    << "header_parse", "unit_conversion", "bearing_reorientation",
       "incidence_angle", "bin_size", "intensity_load",
       "intensity_unit_conversion", "blanking_filter", "reflection_filter",
       "peak_localization", "derived_finalize" >>

StageNames ==
    { "allocate", "set_depth_altitude", "max_intensity" }
        \cup SeqSet(DecodeStages)

InDecode == last.op \in StageNames

(* the stages of DecodeStages that come before stage *)
Before(stage) ==
    { DecodeStages[j] : j \in 1..(Lookup(DecodeStages, stage)) }

(* the stages that have run, the running one included                      *)
HaveRun == { StageOrder[j] : j \in 1..last.val }

(* C22: when a stage of the decode runs, exactly the stages listed before  *)
(* it have run, each once; every field a stage reads was written by an     *)
(* earlier stage; bin_size, bearing_ref_world, sonar_depth and             *)
(* sonar_altitude are written before the filters, and max_intensity_bin    *)
(* after both filters and before peak localization.                        *)
C22_StagesInOrder ==
    InDecode
        => /\ last.op \in SeqSet(DecodeStages)
                 => HaveRun \cap SeqSet(DecodeStages)
                       = Before(last.op) \cup { last.op }
           /\ last.args[2] \subseteq last.args[1]
           /\ last.op \in { "blanking_filter", "reflection_filter" }
                 => /\ { "bin_size", "bearing_ref_world", "sonar_depth",
                         "sonar_altitude" } \subseteq last.args[1]
                    /\ "max_intensity_bin" \notin last.args[1]
           /\ last.op = "peak_localization"
                 => /\ "max_intensity_bin" \in last.args[1]
                    /\ { "blanking_filter", "reflection_filter" }
                          \subseteq HaveRun
           /\ (ensemble.made /\ last.err = "none")
                 => last.op = "derived_finalize"

(* the reflection filter runs on a row with a depth, after the blanking    *)
(* filter                                                                  *)
C22_Witness ==
    /\ last.op = "reflection_filter"
    /\ last.input.depth # None
    /\ last.err = "none"
    /\ "blanking_filter" \in HaveRun

(***************************************************************************)
(* MicronTimeSeries.from_raw_csv and micron_reader: the loop over the      *)
(* lines of a device log.  A log is its lines after the header line; a     *)
(* line is the row of one ensemble or is blank.                            *)
(***************************************************************************)
(* the most lines of a log, after its header line                          *)
MaxLines == 3

BlankLine == [blank |-> TRUE, input |-> NoInput]

ScanLine(in) == [blank |-> FALSE, input |-> in]

LogLines == { BlankLine } \cup { ScanLine(in) : in \in TableInputs }

(* csv_file.readline() at position pos (from 1): the line, or the empty    *)
(* string at the end of the file, which splits into one token as a blank   *)
(* line does                                                               *)
ReadLine(lines, pos) == IF pos <= Len(lines) THEN lines[pos] ELSE BlankLine

(* the inputs of the constructor calls of the loop from position pos on:   *)
(* `for line in csv_file` takes the line at pos, csv_file.readline() the   *)
(* one at pos + 1, which is decoded unless it splits into one token        *)
RECURSIVE ScanFrom(_, _)
ScanFrom(lines, pos) ==
    IF pos > Len(lines) \/ ReadLine(lines, pos + 1).blank THEN << >>
    ELSE << lines[pos + 1].input >> \o ScanFrom(lines, pos + 2)

(* the data arrays the loop appends                                        *)
ScannedArrays(ins) == [i \in 1..Len(ins) |-> Decoded[ins[i]].data_array]

(* from_raw_csv(filepath, date, ...) on a log with the given lines: the    *)
(* loop, then ts.to_dataframe()                                            *)
from_raw_csv(lines) ==
    /\ NewTimeSeries
    /\ last' = [Call("from_raw_csv", "none")
                  EXCEPT !.args = << lines >>,
                         !.buffered = Len(ScanFrom(lines, 1))]
    /\ df' = IF HasEnsembles(ScannedArrays(ScanFrom(lines, 1)))
             THEN DataFrame(NewRows(ScannedArrays(ScanFrom(lines, 1))))
             ELSE NoneDf
    /\ ensemble' = IF ScanFrom(lines, 1) = << >> THEN NoEnsemble
                   ELSE [made |-> TRUE,
                         data_array |->
                            ScannedArrays(ScanFrom(lines, 1))[
                                Len(ScanFrom(lines, 1))]]
    /\ ensemble_list' = << >>
    /\ appended' = ScannedArrays(ScanFrom(lines, 1))
    /\ materialized' = Len(ScanFrom(lines, 1))
    /\ UNCHANGED << cropped, calls, constructed,
                    crop_base >>

NextRaw ==
    \E n \in 0..MaxLines : \E lines \in [1..n -> LogLines] :
        from_raw_csv(lines)

SpecRaw == Init /\ [][NextRaw]_vars

NotBlank(line) == ~line.blank

(* the inputs of the scan lines of a log, in file order                    *)
ScanLines(lines) ==
    LET data == SelectSeq(lines, NotBlank)
    IN  [i \in 1..Len(data) |-> data[i].input]

(* C23: the table from_raw_csv returns has one row for every scan line     *)
(* after the header line of the log, decoded once and in file order, and   *)
(* the buffer is empty.                                                    *)
C23_OneRowPerScanLine ==
    last.op = "from_raw_csv"
        => /\ ensemble_list = << >>
           /\ Len(df.rows) = Len(ScanLines(last.args[1]))
           /\ df.rows = NewRows(ScannedArrays(ScanLines(last.args[1])))

(* what the loop does: it decodes the lines at the even positions, up to   *)
(* the first of them that is blank, and leaves the buffer empty            *)
RawScanOfCode ==
    last.op = "from_raw_csv"
        => LET lines == last.args[1]
               stop == CHOOSE k \in 1..(Len(lines) + 1) :
                          /\ ReadLine(lines, 2 * k).blank
                          /\ \A j \in 1..(k - 1) : ~ReadLine(lines, 2 * j).blank
           IN  /\ ensemble_list = << >>
               /\ Len(df.rows) = stop - 1
               /\ \A k \in 1..(stop - 1) :
                     df.rows[k].data = Decoded[lines[2 * k].input].data_array

(* C24: when get_peak_width returns numbers, peak_start_bin <=             *)
(* max_intensity_bin <= peak_end_bin <= the last bin index, and            *)
(* peak_width_bin and peak_width are not negative.                         *)
C24_PeakBoundsOrdered ==
    last.op = "parse_derived_vars"
        => LET a == last.args[1]
               r == last.ret[1]
           IN  (r.peak_start_bin # NaN /\ r.peak_end_bin # NaN)
                 => /\ 0 <= r.peak_start_bin
                    /\ r.peak_start_bin <= r.max_intensity_bin
                    /\ r.max_intensity_bin <= r.peak_end_bin
                    /\ r.peak_end_bin <= Len(a) - 1
                    /\ r.peak_width_bin >= 0
                    /\ r.peak_width >= 0

(* a peak that starts before the maximum and ends after it                 *)
C24_Witness ==
    /\ last.op = "parse_derived_vars"
    /\ last.ret[1].peak_start_bin # NaN
    /\ last.ret[1].peak_start_bin < last.ret[1].max_intensity_bin
    /\ last.ret[1].max_intensity_bin < last.ret[1].peak_end_bin
    /\ last.ret[1].peak_width > 0

(* the header and derived cells of a data array of the decoder             *)
HeadOf(data_array) == SubSeq(data_array, 1, ens_intensity_index)

(* C25: the blanking and the reflection filter leave every header and      *)
(* derived cell of the record as it was, for every depth, altitude,        *)
(* bearing and bin size, a zero or negative depth or altitude included.    *)
C25_FiltersKeepHeader ==
    last.op \in { "filter_blanking_distance", "filter_reflections" }
        => /\ Len(last.ret[1]) = Len(last.args[1])
           /\ HeadOf(last.ret[1]) = HeadOf(last.args[1])

(* the same for depths and altitudes that are None or not negative         *)
FiltersKeepHeaderAboveZero ==
    (/\ last.op = "filter_reflections"
     /\ last.args[3] = None \/ last.args[3] >= 0
     /\ last.args[4] = None \/ last.args[4] >= 0)
        => HeadOf(last.ret[1]) = HeadOf(last.args[1])

(***************************************************************************)
(* The table crop_on_bearing returned, ts, labelled afterwards:            *)
(* ts.set_label_by_bearing and ts.reset_labels run the same code on        *)
(* ts.df.  A row of ts.df that shares its storage with a row of the source *)
(* table carries the write to that row.                                    *)
(***************************************************************************)
(* the rows of the source table after the rows of the returned table       *)
(* became new_rows                                                         *)
WriteThrough(src_rows, new_rows, base) ==
    [k \in 1..Len(src_rows) |->
        IF \E i \in 1..Len(base) : base[i] = k
        THEN new_rows[CHOOSE i \in 1..Len(base) : base[i] = k]
        ELSE src_rows[k]]

(* the exception the call on the returned table raises, or "none"          *)
CropLabelError(var) == IF var \notin label_set THEN "ValueError" ELSE "none"

(* ts.set_label_by_bearing(var, val, bearing_min, bearing_max, pad)        *)
crop_set_label_by_bearing(var, val, bearing_min, bearing_max, pad) ==
    /\ ~cropped.is_none
    /\ calls < MaxCalls
    /\ calls' = calls + 1
    /\ last' = [Call("ts.set_label_by_bearing", CropLabelError(var))
                  EXCEPT !.var = var, !.val = val, !.lo = bearing_min,
                         !.hi = bearing_max, !.pad = pad]
    /\ cropped' = IF CropLabelError(var) = "none"
                  THEN DataFrame(LabelRows(cropped.rows, var, val,
                                           bearing_min, bearing_max, pad))
                  ELSE cropped
    /\ df' = IF CropLabelError(var) = "none"
             THEN DataFrame(WriteThrough(df.rows,
                                         LabelRows(cropped.rows, var, val,
                                                   bearing_min, bearing_max,
                                                   pad),
                                         crop_base))
             ELSE df
    /\ UNCHANGED << ensemble, ensemble_list, appended, materialized,
                    constructed, crop_base >>

(* ts.reset_labels()                                                       *)
crop_reset_labels ==
    /\ ~cropped.is_none
    /\ calls < MaxCalls
    /\ calls' = calls + 1
    /\ last' = Call("ts.reset_labels", "none")
    /\ cropped' = DataFrame(ResetRows(cropped.rows, labels))
    /\ df' = DataFrame(WriteThrough(df.rows, ResetRows(cropped.rows, labels),
                                    crop_base))
    /\ UNCHANGED << ensemble, ensemble_list, appended, materialized,
                    constructed, crop_base >>

(* << bearing_min, bearing_max, pad >>: every bearing, and the bearings    *)
(* from 0 on                                                               *)
CropLabelWindows == { << -180, 180, 0 >>, << 0, 180, 0 >> }

(* a label field and a name that is no field                               *)
CropLabelFields == { "label_ice_category", "no_such_field" }

(* a table that is cropped, in between appends to its buffer, and whose    *)
(* crop is labelled                                                        *)
NextCropLabel ==
    \/ \E w \in CropWindows : \E single_swath \in BOOLEAN :
           crop_on_bearing(w[1], w[2], single_swath)
    \/ add_ensemble
    \/ \E var \in CropLabelFields : \E w \in CropLabelWindows :
           crop_set_label_by_bearing(var, 1, w[1], w[2], w[3])
    \/ crop_reset_labels

SpecCropLabel == InitTable(MaxLabelRows) /\ [][NextCropLabel]_vars

(* the calls made on the table crop_on_bearing returned                    *)
OnReturnedTable == { "ts.set_label_by_bearing", "ts.reset_labels" }

(* C26: crop_on_bearing leaves the source table as it was, its rows, its   *)
(* values and its pending buffer, and labelling or resetting the labels of *)
(* the table it returned changes no cell of the source table.              *)
C26_CropLeavesSource ==
    [][/\ last'.op = "crop_on_bearing"
           => /\ df' = df
              /\ ensemble_list' = ensemble_list
       /\ last'.op \in OnReturnedTable
           => /\ df' = df
              /\ ensemble_list' = ensemble_list]_vars

(* a label written to a row of the returned table while the row it was     *)
(* taken from, in a source table with a pending buffer, has its old value  *)
C26_Witness ==
    /\ last.op = "ts.set_label_by_bearing"
    /\ last.err = "none"
    /\ last.var = "label_ice_category"
    /\ ensemble_list # << >>
    /\ \E i \in 1..Len(cropped.rows) :
           Cell(cropped.rows[i], "label_ice_category") = 1
    /\ \A k \in 1..Len(df.rows) :
           Cell(df.rows[k], "label_ice_category") # 1
====
